---------------------------- MODULE Spec2Model ----------------------------
(***************************************************************************)
(* A model of the scan-aggregate-score pipeline of the APK analyzer and    *)
(* the GitHub analyzer: the risk scorers, the issue aggregation (sort,     *)
(* truncation, severity counts), the redaction of matched secrets and the  *)
(* dependency resolver's staleness rule.                                   *)
(*                                                                         *)
(* The module holds several specifications over one set of variables; each *)
(* specification moves only its own group of variables and leaves the      *)
(* other groups at their idle values.                                      *)
(*   SpecScore  - the two risk scorers applied to growing issue counts     *)
(*   SpecScan   - one scan (GitHub security, GitHub code quality or APK     *)
(*                security) of one piece of evidence                       *)
(*   SpecRedact - one match of a secret-like detector turned into an issue *)
(*   SpecDeps   - the dependency resolver run on one manifest file         *)
(*   SpecJob    - one background analysis job, from the request that       *)
(*                creates it to the end of its cleanup                     *)
(*   SpecTech   - the technology detectors run on one APK's signature hits *)
(***************************************************************************)
EXTENDS Integers, Sequences, FiniteSets, TLC

VARIABLES
    \* --- risk scorers (SpecScore) ---
    cntA,        \* severity counts of a scan result A
    cntB,        \* severity counts of a scan result B, pointwise >= cntA
    apkScoreA,   \* calculate_risk_score on A's issues
    apkScoreB,   \* calculate_risk_score on B's issues
    ghScoreA,    \* scan_security_issues' risk_score for A's counts
    ghScoreB,    \* scan_security_issues' risk_score for B's counts
    \* --- one scan (SpecScan) ---
    kind,        \* which scan function runs
    evidence,    \* what the scan reads: the files and what the patterns match
    detected,    \* the issues in the order the detectors appended them
    result,      \* the dictionary the scan function returns
    pc,          \* "idle", "start" or "done"
    \* --- one matched secret (SpecRedact) ---
    detector,    \* the secret-like detector and the pattern that matched
    matched,     \* the matched string, a sequence of characters
    issue,       \* the issue the detector appends for the match
    \* --- the dependency resolver (SpecDeps) ---
    manifest,    \* the manifest file: its ecosystem and its entries
    dependencies,\* the Dependency records the resolver returns
    dpc,         \* "idle", "start" or "done"
    \* --- one background analysis job (SpecJob) ---
    service,     \* "apk" or "github": whose process_*_analysis runs
    faults,      \* what goes wrong in the job's environment during this run
    record,      \* analysis_results[analysis_id]
    partial,     \* the job's local results so far, by phase
    workspaces,  \* the temporary files and directories that exist
    jpc,         \* the job's position
    \* --- technology detection (SpecTech) ---
    hits,        \* per category and technology, the raw signature hits
    technology,  \* the results dictionary of detect_technology
    tpc,         \* "idle", "start" or "done"
    \* --- the file walk of a repository scanner (SpecWalk) ---
    walked,      \* the scanner and the file os.walk hands it
    listed,      \* whether the file was put on the scanner's list of files
    wpc,         \* "idle", "start" or "done"
    \* --- the result maps and their endpoints (SpecStore) ---
    store,       \* per service, analysis_results: analysis id -> record
    tasks,       \* per analysis id, its background task
    uploads,     \* the ids whose uploaded APK is in UPLOAD_DIR
    response,    \* what the last get, list or delete request was answered
    \* --- the report service (SpecReport) ---
    reports,     \* reports: report id -> report
    generation,  \* per report id, its background generation task
    report_files \* the report files that exist in REPORTS_DIR

scoreVars == <<cntA, cntB, apkScoreA, apkScoreB, ghScoreA, ghScoreB>>

scanVars == <<kind, evidence, detected, result, pc>>

redactVars == <<detector, matched, issue>>

depVars == <<manifest, dependencies, dpc>>

jobVars == <<service, faults, record, partial, workspaces, jpc>>

techVars == <<hits, technology, tpc>>

walkVars == <<walked, listed, wpc>>

storeVars == <<store, tasks, uploads, response>>

reportVars == <<reports, generation, report_files>>

vars == <<scoreVars, scanVars, redactVars, depVars, jobVars, techVars, walkVars, storeVars, reportVars>>

-----------------------------------------------------------------------------
(* Bounds of the model *)

MaxCritical == 10
MaxHigh == 2
MaxMedium == 2
MaxLow == 2
MaxInfo == 1

\* Distinct file paths and files of a repository.
NumPaths == 2
MaxFiles == 2

\* The matches of one pattern in a file that matches it over and over.
BulkMatches == 101

\* The .dex files of an APK.
MaxDex == 15

\* Distinct values a sensitive pattern matches in a .dex file.
NumMatchValues == 2

\* A matched string: FreeLen characters drawn freely, then padding up to the
\* shortest length its pattern matches plus at most ExtraLen.
FreeLen == 3
ExtraLen == 2

\* The packages a manifest file may declare.
NumPackages == 1

-----------------------------------------------------------------------------
(* Helpers *)

Min(a, b) == IF a <= b THEN a ELSE b

Max(a, b) == IF a >= b THEN a ELSE b

Range(s) == {s[i] : i \in DOMAIN s}

Take(s, n) == SubSeq(s, 1, Min(n, Len(s)))

-----------------------------------------------------------------------------
(* Severities and the scorers *)

Severities == {"critical", "high", "medium", "low", "info"}

\* The severity_counts dict as both scans initialise it.
ZeroCounts == [s \in Severities |-> 0]

TotalCount(c) == c["critical"] + c["high"] + c["medium"] + c["low"] + c["info"]

\* severity_weights of calculate_risk_score (APK): medium weighs 3.
ApkSeverityWeights ==
    [s \in Severities |->
        CASE s = "critical" -> 10
          [] s = "high" -> 5
          [] s = "medium" -> 3
          [] s = "low" -> 1
          [] OTHER -> 0]

\* severity_weights of scan_security_issues (GitHub): medium weighs 2.
GithubSeverityWeights ==
    [s \in Severities |->
        CASE s = "critical" -> 10
          [] s = "high" -> 5
          [] s = "medium" -> 2
          [] s = "low" -> 1
          [] OTHER -> 0]

\* sum(weight[severity] for ...): the sum over the issues of a list equals the
\* sum over its severity counts.
WeightedSum(c, w) ==
    c["critical"] * w["critical"] + c["high"] * w["high"]
        + c["medium"] * w["medium"] + c["low"] * w["low"] + c["info"] * w["info"]

ApkWeightedSum(c) == WeightedSum(c, ApkSeverityWeights)

GithubWeightedSum(c) == WeightedSum(c, GithubSeverityWeights)

\* The weighted sums ws in 0..1000 for which the IEEE-754 double computation
\* (ws / 100) * 100 falls just below ws, so that int() truncates it to ws - 1
\* (29 / 100 * 100 = 28.999999999999996).  The model's weighted sums stay
\* below 1000.
FloatTruncLoss ==
    {29, 57, 58, 113, 114, 115, 116, 201, 203, 205, 207, 226, 228, 230, 232,
     251, 253, 255, 402, 406, 410, 414, 427, 431, 435, 439, 452, 456, 460,
     464, 477, 481, 485, 489, 502, 506, 510, 803, 804, 812, 820, 828, 829,
     837, 845, 853, 854, 862, 870, 878, 879, 887, 895, 903, 904, 912, 920,
     928, 929, 937, 945, 953, 954, 962, 970, 978, 979, 987, 995}

\* int((weighted_sum / max_reasonable_weight) * 100), max_reasonable_weight = 100,
\* in double arithmetic.
ApkScaled(ws) == IF ws \in FloatTruncLoss THEN ws - 1 ELSE ws

\* A scorer that forgets the saturation ceiling.
CalculateRiskScore_NoCap(c) == ApkScaled(ApkWeightedSum(c))

\* calculate_risk_score: min(100, int((weighted_sum / 100) * 100)).
CalculateRiskScore(c) == Min(100, ApkScaled(ApkWeightedSum(c)))

\* A scorer that reports quality (100 is best) instead of risk, the way
\* analyze_code_quality's quality_score does.
GithubRiskScore_AsQuality(c) == Max(0, 100 - Min(100, GithubWeightedSum(c)))

\* scan_security_issues: min(100, int(weighted_sum * 100 / max_weight)),
\* max_weight = 100; weighted_sum * 100 is an int and the true division by 100
\* is exact, so int() returns weighted_sum.
GithubRiskScore(c) == Min(100, (GithubWeightedSum(c) * 100) \div 100)

\* The scan group at rest.
ScanIdle ==
    /\ kind = "none"
    /\ evidence = <<>>
    /\ detected = <<>>
    /\ result = <<>>
    /\ pc = "idle"

\* The redaction group at rest.
RedactIdle ==
    /\ detector = [service |-> "none", pattern |-> 0]
    /\ matched = <<>>
    /\ issue = <<>>

\* The dependency group at rest.
DepsIdle ==
    /\ manifest = <<>>
    /\ dependencies = <<>>
    /\ dpc = "idle"

\* analysis_results holds no record and no job runs.
JobIdle ==
    /\ service = "none"
    /\ faults = <<>>
    /\ record = <<>>
    /\ partial = <<>>
    /\ workspaces = {}
    /\ jpc = [at |-> "idle", phase |-> 0]

\* The technology group at rest.
TechIdle ==
    /\ hits = <<>>
    /\ technology = <<>>
    /\ tpc = "idle"

\* The file walk at rest.
WalkIdle ==
    /\ walked = <<>>
    /\ listed = FALSE
    /\ wpc = "idle"

\* The services' result maps at rest.
StoreIdle ==
    /\ store = <<>>
    /\ tasks = <<>>
    /\ uploads = {}
    /\ response = <<>>

\* The report service at rest.
ReportIdle ==
    /\ reports = <<>>
    /\ generation = <<>>
    /\ report_files = {}

-----------------------------------------------------------------------------
(* SpecScore: two scan results A and B, B holding every issue of A *)

MaxCount(s) ==
    CASE s = "critical" -> MaxCritical
      [] s = "high" -> MaxHigh
      [] s = "medium" -> MaxMedium
      [] s = "low" -> MaxLow
      [] OTHER -> MaxInfo

ScoreIdle ==
    /\ cntA = ZeroCounts
    /\ cntB = ZeroCounts
    /\ apkScoreA = 0
    /\ apkScoreB = 0
    /\ ghScoreA = 0
    /\ ghScoreB = 0

\* One more issue of severity s is found in both scans and each is rescored.
AddIssueBoth(s) ==
    /\ cntB[s] < MaxCount(s)
    /\ cntA' = [cntA EXCEPT ![s] = @ + 1]
    /\ cntB' = [cntB EXCEPT ![s] = @ + 1]
    /\ apkScoreA' = CalculateRiskScore(cntA')
    /\ apkScoreB' = CalculateRiskScore(cntB')
    /\ ghScoreA' = GithubRiskScore(cntA')
    /\ ghScoreB' = GithubRiskScore(cntB')
    /\ UNCHANGED <<scanVars, redactVars, depVars, jobVars, techVars, walkVars, storeVars, reportVars>>

\* One more issue of severity s is found in scan B only.
AddIssueB(s) ==
    /\ cntB[s] < MaxCount(s)
    /\ cntB' = [cntB EXCEPT ![s] = @ + 1]
    /\ apkScoreB' = CalculateRiskScore(cntB')
    /\ ghScoreB' = GithubRiskScore(cntB')
    /\ UNCHANGED <<cntA, apkScoreA, ghScoreA>>
    /\ UNCHANGED <<scanVars, redactVars, depVars, jobVars, techVars, walkVars, storeVars, reportVars>>

ScoreInit == ScoreIdle /\ ScanIdle /\ RedactIdle /\ DepsIdle /\ JobIdle /\ TechIdle /\ WalkIdle /\ StoreIdle /\ ReportIdle

ScoreNext ==
    \/ \E s \in Severities : AddIssueBoth(s)
    \/ \E s \in Severities : AddIssueB(s)

SpecScore == ScoreInit /\ [][ScoreNext]_vars

-----------------------------------------------------------------------------
(* Claims about the scorers *)

CountsLeq(a, b) == \A s \in Severities : a[s] <= b[s]

\* C1: for any non-negative severity counts, the APK risk score and the GitHub
\* security risk score are integers in 0..100.
C1_ScoreBounds ==
    /\ apkScoreA \in 0..100
    /\ apkScoreB \in 0..100
    /\ ghScoreA \in 0..100
    /\ ghScoreB \in 0..100

\* C1 witness: both scorers saturate at 100 on a weighted sum above 100.
C1_Witness ==
    /\ ApkWeightedSum(cntB) > 100
    /\ GithubWeightedSum(cntB) > 100
    /\ apkScoreB = 100
    /\ ghScoreB = 100

\* C2: whenever A[sev] <= B[sev] for every severity, Score(A) <= Score(B), for
\* both scorers.
C2_ScoreMonotone ==
    CountsLeq(cntA, cntB) => (apkScoreA <= apkScoreB /\ ghScoreA <= ghScoreB)

\* C2 witness: B holds strictly more issues than a non-empty A and scores
\* strictly higher under both scorers.
C2_Witness ==
    /\ CountsLeq(cntA, cntB)
    /\ TotalCount(cntA) > 0
    /\ TotalCount(cntA) < TotalCount(cntB)
    /\ apkScoreA < apkScoreB
    /\ ghScoreA < ghScoreB

\* C3: calculate_risk_score returns min(100, weightedSum): one high issue
\* scores 5, every weighted sum below 100 scores itself, and every weighted sum
\* of 100 or more scores 100.
C3_ApkScoreExact ==
    /\ apkScoreA = Min(100, ApkWeightedSum(cntA))
    /\ apkScoreB = Min(100, ApkWeightedSum(cntB))

-----------------------------------------------------------------------------
(* Issues and their aggregation *)

\* The cap on the returned issues list (results["issues"][:100]).
MaxIssues == 100

\* file_path None (MISSING_GITIGNORE, the APK manifest issues).  A file path is
\* modelled by its rank 1, 2, ... in the lexicographic order of the paths.
NoPath == 0

Paths == 1..NumPaths

\* One issue dictionary.  line_number tells the matches of one pattern in one
\* file apart; description stands for the text that varies with the match.
Issue(id, sev, path, line, type, desc) ==
    [issue_id |-> id, severity |-> sev, file_path |-> path, line_number |-> line,
     issue_type |-> type, description |-> desc]

RECURSIVE Flatten(_)
\* The concatenation of a sequence of sequences: nested loops appending to one
\* list.
Flatten(ss) == IF ss = <<>> THEN <<>> ELSE Head(ss) \o Flatten(Tail(ss))

\* severity_order of both GitHub scans.
SeverityOrder ==
    [s \in Severities |->
        CASE s = "critical" -> 0
          [] s = "high" -> 1
          [] s = "medium" -> 2
          [] s = "low" -> 3
          [] OTHER -> 4]

\* The order of the issue_type strings under Python's string comparison.
IssueTypeOrder(t) ==
    CASE t = "misconfiguration" -> 0
      [] t = "secret" -> 1
      [] OTHER -> 2

\* for issue in issues: severity_counts[issue.severity] += 1
SeverityCounts(issues) ==
    [s \in Severities |-> Cardinality({i \in DOMAIN issues : issues[i].severity = s})]

\* list.sort(key = ...) for a key of two small integers (k1 in 0..n1, k2 in
\* 0..n2): the sort is stable, so the issues of one key keep their order.
StableSort(issues, K1(_), n1, K2(_), n2) ==
    LET bucket(a, b) == SelectSeq(issues, LAMBDA x : K1(x) = a /\ K2(x) = b)
        row(a) == Flatten([b1 \in 1..(n2 + 1) |-> bucket(a, b1 - 1)])
    IN Flatten([a1 \in 1..(n1 + 1) |-> row(a1 - 1)])

SevKey(x) == SeverityOrder[x.severity]

TypeKey(x) == IssueTypeOrder(x.issue_type)

PathKey(x) == x.file_path

\* results["issues"].sort(key=lambda x: (severity_order[x["severity"]], x["issue_type"]))
SortSecurityIssues(issues) == StableSort(issues, SevKey, 4, TypeKey, 2)

\* results["issues"].sort(key=lambda x: (severity_order[x["severity"]], x["file_path"]))
SortQualityIssues(issues) == StableSort(issues, SevKey, 4, PathKey, NumPaths)

\* if len(issues) > 100: issues = issues[:100]
Truncate(issues) == IF Len(issues) > MaxIssues THEN SubSeq(issues, 1, MaxIssues) ELSE issues

-----------------------------------------------------------------------------
(* The GitHub security scan: scan_security_issues *)

\* secret_patterns, in order.
SecretPatterns ==
    << [id |-> "SECRET_AWS_ACCESS_KEY", severity |-> "critical"],
       [id |-> "SECRET_AWS_SECRET_KEY", severity |-> "critical"],
       [id |-> "SECRET_GOOGLE_API_KEY", severity |-> "critical"],
       [id |-> "SECRET_GITHUB_TOKEN", severity |-> "critical"],
       [id |-> "SECRET_GENERIC_API_KEY", severity |-> "high"],
       [id |-> "SECRET_GENERIC_SECRET", severity |-> "high"],
       [id |-> "SECRET_PRIVATE_KEY", severity |-> "critical"],
       [id |-> "SECRET_CONNECTION_STRING", severity |-> "high"] >>

\* vulnerability_patterns, in order.
VulnerabilityPatterns ==
    << [id |-> "VULN_SQL_INJECTION", language |-> "python", severity |-> "critical"],
       [id |-> "VULN_SQL_INJECTION", language |-> "javascript", severity |-> "critical"],
       [id |-> "VULN_CROSS-SITE_SCRIPTING_(XSS)", language |-> "javascript", severity |-> "high"],
       [id |-> "VULN_CROSS-SITE_SCRIPTING_(XSS)", language |-> "python", severity |-> "high"],
       [id |-> "VULN_COMMAND_INJECTION", language |-> "python", severity |-> "critical"],
       [id |-> "VULN_COMMAND_INJECTION", language |-> "javascript", severity |-> "critical"],
       [id |-> "VULN_PATH_TRAVERSAL", language |-> "python", severity |-> "high"],
       [id |-> "VULN_PATH_TRAVERSAL", language |-> "javascript", severity |-> "high"],
       [id |-> "VULN_INSECURE_DESERIALIZATION", language |-> "python", severity |-> "high"],
       [id |-> "VULN_INSECURE_DESERIALIZATION", language |-> "javascript", severity |-> "medium"],
       [id |-> "VULN_HARDCODED_CREDENTIALS", language |-> "any", severity |-> "high"],
       [id |-> "VULN_INSECURE_CRYPTOGRAPHY", language |-> "python", severity |-> "medium"],
       [id |-> "VULN_INSECURE_CRYPTOGRAPHY", language |-> "javascript", severity |-> "medium"] >>

\* config_patterns, in order.
ConfigPatterns ==
    << [id |-> "CONFIG_ENV_FILE", severity |-> "medium"],
       [id |-> "CONFIG_CONFIG_FILE", severity |-> "low"],
       [id |-> "CONFIG_CONFIG_FILE", severity |-> "low"],
       [id |-> "CONFIG_CONFIG_FILE", severity |-> "medium"],
       [id |-> "CONFIG_CONFIG_FILE", severity |-> "medium"],
       [id |-> "CONFIG_CONFIG_FILE", severity |-> "medium"],
       [id |-> "CONFIG_CONFIG_FILE", severity |-> "medium"],
       [id |-> "CONFIG_DOCKER_CONFIG", severity |-> "low"],
       [id |-> "CONFIG_IAC_STATE", severity |-> "high"],
       [id |-> "CONFIG_CERTIFICATE", severity |-> "critical"],
       [id |-> "CONFIG_CERTIFICATE", severity |-> "critical"] >>

\* language_extensions: the languages a file extension belongs to, in the
\* dictionary's order ("any" lists every source extension, last).
LanguagesOf(ext) ==
    CASE ext = ".py" -> <<"python", "any">>
      [] ext = ".js" -> <<"javascript", "any">>
      [] OTHER -> <<>>

\* A file of the repository as the three scanners see it: its path, its
\* extension, how often each secret and each vulnerability pattern matches its
\* content (the k-th match on line k), the config pattern its name matches
\* (0: none) and whether the JWT and CORS checks hit it.
RepoFile(ext, secrets, vulns, config, jwt, cors) ==
    [path |-> 0, ext |-> ext, secrets |-> secrets, vulns |-> vulns,
     config |-> config, weak_jwt |-> jwt, wildcard_cors |-> cors]

NoSecretHits == [i \in 1..Len(SecretPatterns) |-> 0]

NoVulnHits == [i \in 1..Len(VulnerabilityPatterns) |-> 0]

\* The file contents of the model.
RepoFileProfiles ==
    { RepoFile(".py", NoSecretHits, NoVulnHits, 0, FALSE, FALSE),
      RepoFile(".py", [NoSecretHits EXCEPT ![5] = 1], NoVulnHits, 0, FALSE, FALSE),
      RepoFile(".py", [NoSecretHits EXCEPT ![5] = BulkMatches], NoVulnHits, 0, FALSE, FALSE),
      RepoFile(".py", [NoSecretHits EXCEPT ![1] = 1], [NoVulnHits EXCEPT ![1] = 1], 0, FALSE, FALSE),
      RepoFile(".py", NoSecretHits, [NoVulnHits EXCEPT ![12] = 2], 0, FALSE, FALSE),
      RepoFile(".js", [NoSecretHits EXCEPT ![6] = 1], NoVulnHits, 0, TRUE, FALSE),
      RepoFile(".js", NoSecretHits, [NoVulnHits EXCEPT ![2] = 1], 0, FALSE, TRUE),
      RepoFile(".pem", [NoSecretHits EXCEPT ![7] = 1], NoVulnHits, 10, FALSE, FALSE),
      RepoFile(".json", NoSecretHits, NoVulnHits, 2, FALSE, FALSE) }

\* The sequences of at most MaxFiles distinct paths: the order in which os.walk
\* (and glob) yields the files is the file system's.
PathSeqs ==
    {s \in UNION {[1..n -> Paths] : n \in 0..MaxFiles} :
        \A i, j \in DOMAIN s : i # j => s[i] # s[j]}

\* The file lists built from a set of profiles.
FileSeqs(profiles) ==
    UNION { { [j \in DOMAIN ps |-> [prof[j] EXCEPT !.path = ps[j]]] :
                prof \in [DOMAIN ps -> profiles] } : ps \in PathSeqs }

\* The repositories of the model: the files in walk order, and whether a
\* .gitignore exists (one that names none of the files).
Repositories == [files : FileSeqs(RepoFileProfiles), gitignore : BOOLEAN]

\* scan_for_secrets: for each file, each pattern, each match, one issue.
SecretIssuesOfFile(f) ==
    Flatten([i \in 1..Len(SecretPatterns) |->
        [k \in 1..f.secrets[i] |->
            Issue(SecretPatterns[i].id, SecretPatterns[i].severity, f.path, k,
                  "secret", "hardcoded secret")]])

ScanForSecrets(repo) ==
    Flatten([j \in 1..Len(repo.files) |-> SecretIssuesOfFile(repo.files[j])])

RECURSIVE LanguageKeys(_, _)
\* The keys of language_file_map in insertion order: each language at the
\* first file that belongs to it.
LanguageKeys(files, keys) ==
    IF files = <<>> THEN keys
    ELSE LET new == SelectSeq(LanguagesOf(Head(files).ext),
                              LAMBDA l : l \notin Range(keys))
         IN LanguageKeys(Tail(files), keys \o new)

\* patterns = [p for p in vulnerability_patterns if p.language in (language, "any")]
PatternsFor(language) ==
    SelectSeq([i \in 1..Len(VulnerabilityPatterns) |-> i],
              LAMBDA i : VulnerabilityPatterns[i].language \in {language, "any"})

VulnIssuesOfFile(f, language) ==
    LET ps == PatternsFor(language)
    IN Flatten([n \in 1..Len(ps) |->
        [k \in 1..f.vulns[ps[n]] |->
            Issue(VulnerabilityPatterns[ps[n]].id, VulnerabilityPatterns[ps[n]].severity,
                  f.path, k, "vulnerability", "possible vulnerability")]])

\* scan_for_vulnerabilities: for each language of the map, each of its files,
\* each pattern, each match, one issue.
ScanForVulnerabilities(repo) ==
    LET keys == LanguageKeys(repo.files, <<>>)
        filesOf(l) == SelectSeq(repo.files, LAMBDA f : l \in Range(LanguagesOf(f.ext)))
        issuesOf(l) == Flatten([j \in 1..Len(filesOf(l)) |-> VulnIssuesOfFile(filesOf(l)[j], l)])
    IN Flatten([n \in 1..Len(keys) |-> issuesOf(keys[n])])

\* scan_for_misconfigurations: the missing .gitignore, then for each config
\* pattern each file it matches, then the JWT check, then the CORS check.
ScanForMisconfigurations(repo) ==
    LET missing == IF repo.gitignore THEN <<>>
                   ELSE << Issue("MISSING_GITIGNORE", "low", NoPath, 0,
                                 "misconfiguration", "no .gitignore") >>
        matching(p) == SelectSeq(repo.files, LAMBDA f : f.config = p)
        configOf(p) == [j \in 1..Len(matching(p)) |->
                            Issue(ConfigPatterns[p].id, ConfigPatterns[p].severity,
                                  matching(p)[j].path, 0, "misconfiguration", "config file")]
        jwtFiles == SelectSeq(repo.files, LAMBDA f : f.weak_jwt)
        corsFiles == SelectSeq(repo.files, LAMBDA f : f.wildcard_cors)
    IN missing
        \o Flatten([p \in 1..Len(ConfigPatterns) |-> configOf(p)])
        \o [j \in 1..Len(jwtFiles) |->
                Issue("WEAK_JWT_ALGORITHM", "high", jwtFiles[j].path, 0,
                      "misconfiguration", "weak jwt algorithm")]
        \o [j \in 1..Len(corsFiles) |->
                Issue("INSECURE_CORS_POLICY", "medium", corsFiles[j].path, 0,
                      "misconfiguration", "wildcard cors")]

\* The issues of the three scanners in the order results["issues"] is extended.
SecurityIssuesFound(repo) ==
    ScanForSecrets(repo) \o ScanForVulnerabilities(repo) \o ScanForMisconfigurations(repo)

\* A scan that cuts the list to 100 before it sorts it.
SecurityResult_CutFirst(found) ==
    [issues_count |-> Len(found),
     severity_counts |-> SeverityCounts(found),
     risk_score |-> GithubRiskScore(SeverityCounts(found)),
     issues |-> SortSecurityIssues(Truncate(found))]

\* The dictionary scan_security_issues returns: count and severity counts over
\* the whole list, the risk score, then the sort and the cut to 100.
SecurityResult(found) ==
    [issues_count |-> Len(found),
     severity_counts |-> SeverityCounts(found),
     risk_score |-> GithubRiskScore(SeverityCounts(found)),
     issues |-> Truncate(SortSecurityIssues(found))]

\* scan_security_issues on the repository.
ScanSecurityIssues ==
    /\ pc = "start"
    /\ kind = "github_security"
    /\ detected' = SecurityIssuesFound(evidence)
    /\ result' = SecurityResult(detected')
    /\ pc' = "done"
    /\ UNCHANGED <<kind, evidence>>
    /\ UNCHANGED <<scoreVars, redactVars, depVars, jobVars, techVars, walkVars, storeVars, reportVars>>

-----------------------------------------------------------------------------
(* The GitHub code-quality analysis: analyze_code_quality *)

\* A source file as analyze_file sees it: whether it can be read, its
\* language, the cyclomatic complexity of each Python function, the
\* maintainability index, the PEP 8 violations, the branches per function and
\* the long function bodies of a JavaScript file, its long lines and its lines.
SourceFile(readable, language, funcs, mi, style, density, long_fns, long_lines, lines) ==
    [path |-> 0, readable |-> readable, language |-> language, funcs |-> funcs,
     mi |-> mi, style |-> style, density |-> density, long_fns |-> long_fns,
     long_lines |-> long_lines, lines |-> lines]

\* The file contents of the model.
SourceFileProfiles ==
    { SourceFile(TRUE, "Python", <<>>, 80, 0, 0, 0, 0, 10),
      SourceFile(TRUE, "Python", <<16>>, 80, 0, 0, 0, 3, 10),
      SourceFile(TRUE, "Python", [k \in 1..BulkMatches |-> 12], 60, 0, 0, 0, 0, 600),
      SourceFile(TRUE, "Python", <<12, 20>>, 40, 3, 0, 0, 0, 10),
      SourceFile(TRUE, "JavaScript", <<>>, 0, 0, 9, 1, 0, 1001),
      SourceFile(TRUE, "JavaScript", <<>>, 0, 0, 6, 0, 2, 10),
      SourceFile(FALSE, "Python", <<>>, 0, 0, 0, 0, 0, 0) }

\* The files_to_analyze lists of the model, in walk order.
SourceTrees == [files : FileSeqs(SourceFileProfiles)]

QualityIssue(id, sev, f, line) == Issue(id, sev, f.path, line, "quality", "code quality")

\* analyze_file: the issues of one file, in the order it appends them; a file
\* that cannot be read yields none.
AnalyzeFile(f) ==
    LET complex == SelectSeq([k \in 1..Len(f.funcs) |-> k], LAMBDA k : f.funcs[k] > 10)
        python ==
            [n \in 1..Len(complex) |->
                QualityIssue("HIGH_COMPLEXITY",
                             IF f.funcs[complex[n]] > 15 THEN "medium" ELSE "low",
                             f, complex[n])]
            \o (IF f.mi < 65
                THEN << QualityIssue("LOW_MAINTAINABILITY",
                                     IF f.mi < 50 THEN "medium" ELSE "low", f, 0) >>
                ELSE <<>>)
            \o (IF f.style > 0 THEN << QualityIssue("STYLE_VIOLATIONS", "low", f, 0) >>
                ELSE <<>>)
        javascript ==
            (IF f.density > 5
             THEN << QualityIssue("HIGH_BRANCH_DENSITY",
                                  IF f.density > 8 THEN "medium" ELSE "low", f, 0) >>
             ELSE <<>>)
            \o [k \in 1..f.long_fns |-> QualityIssue("LONG_FUNCTION", "low", f, k)]
        smells ==
            (IF f.long_lines > 0 THEN << QualityIssue("LONG_LINES", "low", f, 1) >> ELSE <<>>)
            \o (IF f.lines > 500
                THEN << QualityIssue("LARGE_FILE",
                                     IF f.lines > 1000 THEN "medium" ELSE "low", f, 0) >>
                ELSE <<>>)
    IN IF ~f.readable THEN <<>>
       ELSE (IF f.language = "Python" THEN python ELSE javascript) \o smells

\* The issues of all files in the order the results are processed
\* (executor.map keeps the order of files_to_analyze).
QualityIssuesFound(tree) ==
    Flatten([j \in 1..Len(tree.files) |-> AnalyzeFile(tree.files[j])])

\* issue_weight of analyze_code_quality.
QualityScore(c) == Max(0, 100 - Min(100, WeightedSum(c, GithubSeverityWeights)))

\* The dictionary analyze_code_quality returns (issues_by_severity is held in
\* the field severity_counts): the counters grow with every issue appended,
\* then the list is sorted and cut to 100.
QualityResult(found) ==
    [issues_count |-> Len(found),
     severity_counts |-> SeverityCounts(found),
     quality_score |-> QualityScore(SeverityCounts(found)),
     issues |-> Truncate(SortQualityIssues(found))]

\* analyze_code_quality on the repository.
AnalyzeCodeQuality ==
    /\ pc = "start"
    /\ kind = "code_quality"
    /\ detected' = QualityIssuesFound(evidence)
    /\ result' = QualityResult(detected')
    /\ pc' = "done"
    /\ UNCHANGED <<kind, evidence>>
    /\ UNCHANGED <<scoreVars, redactVars, depVars, jobVars, techVars, walkVars, storeVars, reportVars>>

-----------------------------------------------------------------------------
(* The APK security scan: scan_apk_security *)

ApkIssue(id, sev, location, desc) == Issue(id, sev, location, 0, "apk", desc)

\* What aapt prints for AndroidManifest.xml, as the checks read it: whether the
\* file exists, how the aapt call ends ("ok", "empty": no output, "raises":
\* the executable cannot be run), and what the output holds.
Manifest(present, aapt, backup, debuggable, exported, nsc, cleartext, dangerous, permissions) ==
    [present |-> present, aapt |-> aapt, allow_backup |-> backup,
     debuggable |-> debuggable, exported |-> exported, network_security_config |-> nsc,
     uses_cleartext |-> cleartext, dangerous |-> dangerous, permissions |-> permissions]

ManifestProfiles ==
    { Manifest(FALSE, "ok", FALSE, FALSE, 0, FALSE, FALSE, 0, 0),
      Manifest(TRUE, "raises", TRUE, TRUE, 0, FALSE, FALSE, 0, 0),
      Manifest(TRUE, "empty", TRUE, TRUE, 0, TRUE, FALSE, 0, 0),
      Manifest(TRUE, "ok", FALSE, FALSE, 0, TRUE, FALSE, 0, 3),
      Manifest(TRUE, "ok", TRUE, TRUE, 0, FALSE, FALSE, 0, 3),
      Manifest(TRUE, "ok", FALSE, TRUE, 2, TRUE, TRUE, 2, 16) }

\* The text aapt's output gives the checks: nothing when it printed nothing.
ManifestContent(m) ==
    IF m.aapt = "ok" THEN m
    ELSE Manifest(TRUE, m.aapt, FALSE, FALSE, 0, FALSE, FALSE, 0, 0)

\* check_manifest_security with one EXPORTED_COMPONENTS issue for each
\* exported component instead of one for all of them.
CheckManifestSecurity_PerComponent(m) ==
    LET c == ManifestContent(m)
    IN IF ~m.present \/ m.aapt = "raises" THEN <<>>
       ELSE (IF c.allow_backup
             THEN << ApkIssue("ALLOW_BACKUP_ENABLED", "medium", NoPath, "backup") >>
             ELSE <<>>)
         \o (IF c.debuggable
             THEN << ApkIssue("DEBUGGABLE_APP", "high", NoPath, "debuggable") >>
             ELSE <<>>)
         \o [k \in 1..c.exported |->
                ApkIssue("EXPORTED_COMPONENTS", "medium", NoPath, "exported")]
         \o (IF ~c.network_security_config
             THEN << ApkIssue("MISSING_NETWORK_SECURITY_CONFIG", "medium", NoPath, "no config") >>
             ELSE <<>>)

\* check_manifest_security.
CheckManifestSecurity(m) ==
    LET c == ManifestContent(m)
    IN IF ~m.present \/ m.aapt = "raises" THEN <<>>
       ELSE (IF c.allow_backup
             THEN << ApkIssue("ALLOW_BACKUP_ENABLED", "medium", NoPath, "backup") >>
             ELSE <<>>)
         \o (IF c.debuggable
             THEN << ApkIssue("DEBUGGABLE_APP", "high", NoPath, "debuggable") >>
             ELSE <<>>)
         \o (IF c.exported > 0
             THEN << ApkIssue("EXPORTED_COMPONENTS", "medium", NoPath, "exported") >>
             ELSE <<>>)
         \o (IF ~c.network_security_config
             THEN << ApkIssue("MISSING_NETWORK_SECURITY_CONFIG", "medium", NoPath, "no config") >>
             ELSE <<>>)

\* sensitive_patterns of check_code_security, in order.
SensitivePatterns ==
    << [id |-> "HARDCODED_URL", severity |-> "medium"],
       [id |-> "HARDCODED_SECRET", severity |-> "high"],
       [id |-> "HARDCODED_API_KEY", severity |-> "high"],
       [id |-> "SENSITIVE_LOGGING", severity |-> "low"] >>

\* insecure_patterns of check_encryption, in order.
InsecurePatterns ==
    << [id |-> "WEAK_ENCRYPTION_DES", severity |-> "high"],
       [id |-> "WEAK_ENCRYPTION_RC4", severity |-> "high"],
       [id |-> "INSECURE_AES_MODE", severity |-> "high"],
       [id |-> "WEAK_HASH_MD5", severity |-> "high"],
       [id |-> "WEAK_HASH_SHA1", severity |-> "medium"],
       [id |-> "INSECURE_RANDOM", severity |-> "medium"],
       [id |-> "HARDCODED_ENCRYPTION_KEY", severity |-> "critical"] >>

\* The per-function cap of check_code_security (if len(issues) >= 20: return).
CodeIssueCap == 20

\* unique_matches = set(matches[:5])
MatchLimit == 5

\* The strings of one .dex file: for each sensitive pattern the values
\* re.findall returns, and the insecure patterns re.search finds.
DexStrings(matches, insecure) == [matches |-> matches, insecure |-> insecure]

NoMatches == [i \in 1..Len(SensitivePatterns) |-> <<>>]

\* The match values of the model.
MatchValues == 1..NumMatchValues

DexProfiles ==
    { DexStrings(NoMatches, {}),
      DexStrings(NoMatches, {1}),
      DexStrings([NoMatches EXCEPT ![1] = <<1, 2, 1>>, ![4] = <<1>>], {5}),
      DexStrings([NoMatches EXCEPT ![2] = <<1, 1, 1, 1, 1, 2>>], {}),
      DexStrings(NoMatches, 1..Len(InsecurePatterns)) }

\* network_security_config.xml as check_network_security reads it.
NetworkConfig(present, cleartext, pin_set, user_certs) ==
    [present |-> present, cleartext |-> cleartext, pin_set |-> pin_set,
     user_certs |-> user_certs]

NetworkConfigProfiles ==
    { NetworkConfig(FALSE, FALSE, FALSE, FALSE),
      NetworkConfig(TRUE, TRUE, FALSE, TRUE),
      NetworkConfig(TRUE, FALSE, TRUE, FALSE) }

\* The APKs of the model: whether the archive can be opened and extracted, the
\* manifest, dex_count .dex files of the same strings (the k-th is named by
\* k), and the network security config.
Apks ==
    [extractable : BOOLEAN, manifest : ManifestProfiles, dex_count : 0..MaxDex,
     dex : DexProfiles, netconfig : NetworkConfigProfiles]

\* The orders in which a set of match values may be iterated.
MatchOrders ==
    {o \in [1..NumMatchValues -> MatchValues] :
        \A i, j \in 1..NumMatchValues : i # j => o[i] # o[j]}

\* for match in set(matches[:5]): the unique values of the first five
\* matches, iterated in the set's order.
UniqueMatches(matches, order) ==
    SelectSeq(order, LAMBDA v : v \in Range(Take(matches, MatchLimit)))

\* The issues check_code_security appends for one .dex file.
CodeIssuesOfDex(dex, k, order) ==
    Flatten([i \in 1..Len(SensitivePatterns) |->
        LET unique == UniqueMatches(dex.matches[i], order)
        IN [n \in 1..Len(unique) |->
                ApkIssue(SensitivePatterns[i].id, SensitivePatterns[i].severity, k,
                         unique[n])]])

\* check_code_security: it returns as soon as it holds 20 issues.
CheckCodeSecurity(apk, order) ==
    Take(Flatten([k \in 1..apk.dex_count |-> CodeIssuesOfDex(apk.dex, k, order)]),
         CodeIssueCap)

\* check_network_security.
CheckNetworkSecurity(apk) ==
    LET n == apk.netconfig
        m == apk.manifest
    IN (IF n.present
        THEN (IF n.cleartext
              THEN << ApkIssue("CLEARTEXT_TRAFFIC", "high", NoPath, "cleartext") >>
              ELSE <<>>)
          \o (IF ~n.pin_set
              THEN << ApkIssue("NO_CERT_PINNING", "medium", NoPath, "no pinning") >>
              ELSE <<>>)
          \o (IF n.user_certs
              THEN << ApkIssue("USER_CERTS_ALLOWED", "medium", NoPath, "user certs") >>
              ELSE <<>>)
        ELSE <<>>)
       \o (IF m.present /\ m.aapt = "ok" /\ m.uses_cleartext
           THEN << ApkIssue("USES_CLEARTEXT_TRAFFIC", "high", NoPath, "uses cleartext") >>
           ELSE <<>>)

\* check_encryption: one issue for each .dex file and each insecure pattern
\* found in it.
CheckEncryption(apk) ==
    Flatten([k \in 1..apk.dex_count |->
        LET found == SelectSeq([i \in 1..Len(InsecurePatterns) |-> i],
                               LAMBDA i : i \in apk.dex.insecure)
        IN [n \in 1..Len(found) |->
                ApkIssue(InsecurePatterns[found[n]].id, InsecurePatterns[found[n]].severity,
                         k, "insecure pattern")]])

\* check_permissions.
CheckPermissions(m) ==
    IF ~m.present \/ m.aapt # "ok" THEN <<>>
    ELSE (IF m.dangerous > 0
          THEN << ApkIssue("DANGEROUS_PERMISSIONS", "medium", NoPath, "dangerous") >>
          ELSE <<>>)
      \o (IF m.permissions > 15
          THEN << ApkIssue("EXCESSIVE_PERMISSIONS", "low", NoPath, "excessive") >>
          ELSE <<>>)

\* The issues of the five checks in the order security_issues is extended.
ApkIssuesFound(apk, order) ==
    CheckManifestSecurity(apk.manifest)
        \o CheckCodeSecurity(apk, order)
        \o CheckNetworkSecurity(apk)
        \o CheckEncryption(apk)
        \o CheckPermissions(apk.manifest)

\* An error issue that counts as a finding of severity high.
ScanError_High == ApkIssue("SCAN_ERROR", "high", NoPath, "scan error")

\* The issue appended when the scan raises (the archive cannot be extracted).
ScanError == ApkIssue("SCAN_ERROR", "info", NoPath, "scan error")

\* The dictionary scan_apk_security returns: the issues as appended, neither
\* sorted nor cut.
ApkResult(score, issues) ==
    [risk_score |-> score,
     issues_count |-> Len(issues),
     severity_counts |-> SeverityCounts(issues),
     issues |-> issues]

\* scan_apk_security on the APK: the five checks and the score, or, when the
\* extraction raises, the error issue and the initial score 0.
ScanApkSecurity ==
    /\ pc = "start"
    /\ kind = "apk_security"
    /\ \E order \in MatchOrders :
        /\ detected' = IF evidence.extractable
                       THEN ApkIssuesFound(evidence, order)
                       ELSE << ScanError >>
        /\ result' = ApkResult(IF evidence.extractable
                               THEN CalculateRiskScore(SeverityCounts(detected'))
                               ELSE 0,
                               detected')
    /\ pc' = "done"
    /\ UNCHANGED <<kind, evidence>>
    /\ UNCHANGED <<scoreVars, redactVars, depVars, jobVars, techVars, walkVars, storeVars, reportVars>>

-----------------------------------------------------------------------------
(* SpecScan: one scan of one piece of evidence *)

ScanInit ==
    /\ ScoreIdle
    /\ RedactIdle
    /\ DepsIdle
    /\ JobIdle
    /\ TechIdle /\ WalkIdle /\ StoreIdle /\ ReportIdle
    /\ pc = "start"
    /\ detected = <<>>
    /\ result = <<>>
    /\ \/ kind = "github_security" /\ evidence \in Repositories
       \/ kind = "code_quality" /\ evidence \in SourceTrees
       \/ kind = "apk_security" /\ evidence \in Apks

ScanNext ==
    \/ ScanSecurityIssues
    \/ AnalyzeCodeQuality
    \/ ScanApkSecurity

SpecScan == ScanInit /\ [][ScanNext]_vars

-----------------------------------------------------------------------------
(* Claims about the aggregation *)

Done == pc = "done"

GithubScan == kind \in {"github_security", "code_quality"}

\* The secondary sort key of the scan that ran.
SecondKey(x) == IF kind = "code_quality" THEN PathKey(x) ELSE TypeKey(x)

\* (severity, secondary key) of x comes no later than that of y.
KeyLeq(x, y) ==
    \/ SevKey(x) < SevKey(y)
    \/ SevKey(x) = SevKey(y) /\ SecondKey(x) <= SecondKey(y)

\* C4: in every scan result (GitHub security, GitHub code quality, APK
\* security) the returned issues list holds at most 100 issues, and exactly 100
\* when more than 100 issues were found.
C4_IssueCap ==
    Done =>
        /\ Len(result.issues) <= MaxIssues
        /\ Len(detected) > MaxIssues => Len(result.issues) = MaxIssues

\* C5: the severity counts and issues_count of a GitHub scan result are those
\* of the issues list returned (after the cut to 100).
C5_CountsPostTruncation ==
    (Done /\ GithubScan) =>
        /\ TotalCount(result.severity_counts) = Len(result.issues)
        /\ result.issues_count = Len(result.issues)
        /\ result.severity_counts = SeverityCounts(result.issues)

\* C6 as stated: when a GitHub scan finds more than 100 issues, the issues
\* kept are the first 100 in the order the detectors produced them.
C6_FirstComeKept ==
    (Done /\ GithubScan /\ Len(detected) > MaxIssues) =>
        Range(result.issues) = Range(Take(detected, MaxIssues))

\* C6 amended: when a GitHub scan finds more than 100 issues, it keeps 100 of
\* them, and every issue kept comes no later in the sort order (severity rank,
\* then issue_type in the security scan and file_path in the code-quality
\* analysis) than every issue dropped: the cut keeps the most severe issues,
\* not the first found.
C6_MostSevereKept ==
    (Done /\ GithubScan /\ Len(detected) > MaxIssues) =>
        LET kept == Range(result.issues)
            dropped == Range(detected) \ kept
        IN /\ Len(result.issues) = MaxIssues
           /\ Cardinality(kept) = MaxIssues
           /\ kept \subseteq Range(detected)
           /\ \A k \in kept : \A d \in dropped : KeyLeq(k, d)

\* C6 witness: a GitHub scan found more than 100 issues and the cut dropped
\* one of the first 100 found for a more severe one found later.
C6_Witness ==
    /\ Done
    /\ GithubScan
    /\ Len(detected) > MaxIssues
    /\ \E d \in Range(Take(detected, MaxIssues)) : d \notin Range(result.issues)
    /\ \E i \in DOMAIN detected :
        i > MaxIssues /\ detected[i] \in Range(result.issues)

\* C7: the issues of every scan result are ordered by severity rank, most
\* severe first.
C7_SortedBySeverity ==
    Done =>
        \A i, j \in DOMAIN result.issues :
            i < j => SevKey(result.issues[i]) <= SevKey(result.issues[j])

\* C8: in the issues of a GitHub scan result, issues of equal severity are
\* ordered by ascending file path, those without a file path first.
C8_PathOrderWithinSeverity ==
    (Done /\ GithubScan) =>
        \A i, j \in DOMAIN result.issues :
            (i < j /\ result.issues[i].severity = result.issues[j].severity)
                => result.issues[i].file_path <= result.issues[j].file_path

-----------------------------------------------------------------------------
(* Matched secrets and what the issue description shows of them *)

\* A string is a sequence of symbols. A symbol is one character, or a piece of
\* the program's fixed prose taken whole: the prose holds none of the
\* characters '*', '=', '"', ':' that every match and every redaction of the
\* model holds.

\* c * n
Chars(n, c) == [i \in 1..n |-> c]

\* s[-n:]
LastChars(s, n) == SubSeq(s, Max(1, Len(s) - n + 1), Len(s))

\* t in s
Contains(s, t) ==
    \E i \in 0..(Len(s) - Len(t)) : SubSeq(s, i + 1, i + Len(t)) = t

SecretAlphabet == {"a", "b"}

Strings(n) == [1..n -> SecretAlphabet]

\* The strings of length n the model draws for a character class repeated n
\* times: a free head and a fixed tail.
Tokens(n) == {h \o Chars(n - Len(h), "x") : h \in Strings(Min(n, FreeLen))}

\* redacted_secret = secret[:4] + '*' * (len(secret) - 8) + secret[-4:]
\*                   if len(secret) > 8 else '****'
RedactedSecret(secret) ==
    IF Len(secret) > 8
    THEN Take(secret, 4) \o Chars(Len(secret) - 8, "*") \o LastChars(secret, 4)
    ELSE Chars(4, "*")

\* The shortest capture group of each of secret_patterns, 0 where the regex
\* has no group and the secret is the whole match.
SecretGroupMinLen == <<20, 40, 20, 35, 20, 10, 0, 0>>

\* pattern["name"].lower() of each of secret_patterns.
SecretPatternNames ==
    << "aws access key", "aws secret key", "google api key", "github token",
       "generic api key", "generic secret", "private key", "connection string" >>

\* -----BEGIN (RSA|DSA|EC|OPENSSH) PRIVATE KEY-----
PrivateKeyHeaders ==
    { Chars(5, "-") \o <<"B", "E", "G", "I", "N", " ">> \o type
        \o <<" ", "P", "R", "I", "V", "A", "T", "E", " ", "K", "E", "Y">>
        \o Chars(5, "-") :
      type \in { <<"R", "S", "A">>, <<"D", "S", "A">>, <<"E", "C">>,
                 <<"O", "P", "E", "N", "S", "S", "H">> } }

\* Matches of the connection string regex: pg="<user>:<rest>"
ConnectionStrings ==
    { <<"p", "g", "=", "\"">> \o user \o <<":">> \o Chars(n, "x") \o <<"\"">> :
      user \in UNION {Strings(k) : k \in 0..FreeLen}, n \in 1..(1 + ExtraLen) }

\* secret = match.group(1) if len(match.groups()) > 0 else match.group(0),
\* for a match of secret_patterns[p].
SecretsOf(p) ==
    IF SecretGroupMinLen[p] > 0
    THEN UNION { Tokens(n) :
                   n \in SecretGroupMinLen[p]..(SecretGroupMinLen[p] + ExtraLen) }
    ELSE IF p = 7 THEN PrivateKeyHeaders ELSE ConnectionStrings

\* The description of the issue scan_for_secrets appends for a match of
\* secret_patterns[p]: fixed prose around the pattern's name.
SecretDescription(p) ==
    << "A hardcoded ", SecretPatternNames[p],
       " was found in the code. This represents a security risk as it could be used to gain unauthorized access." >>

\* The issue scan_for_secrets appends for the matched secret.
SecretIssue(p, secret) ==
    LET redacted_secret == RedactedSecret(secret)   \* computed and not used
    IN [issue_id |-> SecretPatterns[p].id,
        severity |-> SecretPatterns[p].severity,
        description |-> SecretDescription(p)]

\* The secret-like patterns among sensitive_patterns of check_code_security.
SecretLikeDexPatterns ==
    {p \in DOMAIN SensitivePatterns :
        SensitivePatterns[p].id \in {"HARDCODED_SECRET", "HARDCODED_API_KEY"}}

\* The description field of each of sensitive_patterns.
SensitiveDescriptions ==
    << "The application contains hardcoded URLs which may expose sensitive information or backend services.",
       "The application contains what appears to be a hardcoded secret, password, or key.",
       "The application contains what appears to be a hardcoded API key.",
       "The application may log sensitive information which could be accessible to other apps." >>

\* What re.findall returns for a secret-like pattern, which has no capture
\* group: the whole match, key="<8 or more>" or apikey="<20 or more>".
DexMatchesOf(p) ==
    IF SensitivePatterns[p].id = "HARDCODED_SECRET"
    THEN { keyword \o <<"=", "\"">> \o value \o <<"\"">> :
             keyword \in { <<"k", "e", "y">>, <<"p", "w", "d">> },
             value \in UNION {Tokens(n) : n \in 8..(8 + ExtraLen)} }
    ELSE { <<"a", "p", "i", "k", "e", "y", "=", "\"">> \o value \o <<"\"">> :
             value \in UNION {Tokens(n) : n \in 20..(20 + ExtraLen)} }

\* displayed_match = match[:15] + "..." if len(match) > 15 else match, for the
\* secret-like patterns; the match itself for the others.
DisplayedMatch(issue_id, match) ==
    IF issue_id \in {"HARDCODED_SECRET", "HARDCODED_API_KEY"}
    THEN IF Len(match) > 15 THEN Take(match, 15) \o Chars(3, ".") ELSE match
    ELSE match

\* The issue check_code_security appends for a match of sensitive_patterns[p].
DexMatchIssue(p, match) ==
    [issue_id |-> SensitivePatterns[p].id,
     severity |-> SensitivePatterns[p].severity,
     description |-> << SensitiveDescriptions[p], "\nExample found: " >>
                        \o DisplayedMatch(SensitivePatterns[p].id, match)]

-----------------------------------------------------------------------------
(* SpecRedact: one match of a secret-like detector *)

NotReported == [issue_id |-> "none", severity |-> "none", description |-> <<>>]

\* scan_for_secrets reaches the match and appends its issue.
ReportSecret ==
    /\ detector.service = "github"
    /\ issue = NotReported
    /\ issue' = SecretIssue(detector.pattern, matched)
    /\ UNCHANGED <<detector, matched>>
    /\ UNCHANGED <<scoreVars, scanVars, depVars, jobVars, techVars, walkVars, storeVars, reportVars>>

\* check_code_security reaches the match and appends its issue.
ReportDexMatch ==
    /\ detector.service = "apk"
    /\ issue = NotReported
    /\ issue' = DexMatchIssue(detector.pattern, matched)
    /\ UNCHANGED <<detector, matched>>
    /\ UNCHANGED <<scoreVars, scanVars, depVars, jobVars, techVars, walkVars, storeVars, reportVars>>

RedactInit ==
    /\ ScoreIdle
    /\ ScanIdle
    /\ DepsIdle
    /\ JobIdle
    /\ TechIdle /\ WalkIdle /\ StoreIdle /\ ReportIdle
    /\ issue = NotReported
    /\ \/ \E p \in DOMAIN SecretPatterns :
            /\ detector = [service |-> "github", pattern |-> p]
            /\ matched \in SecretsOf(p)
       \/ \E p \in SecretLikeDexPatterns :
            /\ detector = [service |-> "apk", pattern |-> p]
            /\ matched \in DexMatchesOf(p)

RedactNext ==
    \/ ReportSecret
    \/ ReportDexMatch

SpecRedact == RedactInit /\ [][RedactNext]_vars

Reported == issue # NotReported

\* C9: for every issue a secret-like detector produces from a matched string
\* s, the description contains s[0:4] + '*'*(len(s)-8) + s[-4:] and never the
\* raw s when len(s) > 8, and contains '****' when len(s) <= 8.
C9_DescriptionRedacted ==
    Reported =>
        /\ Len(matched) > 8 =>
              /\ Contains(issue.description, RedactedSecret(matched))
              /\ ~Contains(issue.description, matched)
        /\ Len(matched) <= 8 => Contains(issue.description, Chars(4, "*"))

-----------------------------------------------------------------------------
(* The dependency resolver: check_npm_dependencies and the others *)

\* A value that may be None: None itself, or the string s.
None == [null |-> TRUE, text |-> <<>>]

Str(s) == [null |-> FALSE, text |-> s]

\* Version strings are sequences of symbols: the characters a resolver looks
\* at one by one ('^', '~', ' ') and the rest of the string taken whole.
NotSpecified == <<"Not specified">>

Packages == 1..NumPackages

PackageSeq == [i \in 1..NumPackages |-> i]

\* One dict of the "dependencies" list of the result.
Dependency(name, current, latest, outdated, type, ecosystem, license) ==
    [name |-> name, current_version |-> current, latest_version |-> latest,
     is_outdated |-> outdated, dependency_type |-> type, ecosystem |-> ecosystem,
     license |-> license]

\* What the registry says of a package: HTTP 200 and a JSON document whose
\* version field is missing, null or a string and whose license is missing or
\* a string; another status; or the request (connection error, timeout) or
\* the decoding of its body raises.
Lookups ==
    [status : {"200"}, field : {"missing", "null", "1.0", "2.0"},
     license : {"missing", "MIT"}]
        \cup [status : {"404", "raises"}, field : {"missing"}, license : {"missing"}]

\* license_info of check_npm_dependencies: None unless the document has one.
NpmLicense(license) == IF license = "missing" THEN None ELSE Str(<<license>>)

\* pypi_data.get("info", {}).get("license", "")
PipLicense(license) == IF license = "missing" THEN Str(<<>>) ELSE Str(<<license>>)

\* data.get(..., {}).get("latest", "") and .get("version", "")
LatestVersion(field) ==
    CASE field = "missing" -> Str(<<>>)
      [] field = "null" -> None
      [] OTHER -> Str(<<field>>)

\* A package a manifest declares, or does not.
NoEntry == [declared |-> FALSE, version |-> None, dev |-> FALSE]

Entry(version, dev) == [declared |-> TRUE, version |-> version, dev |-> dev]

\* The records a file yields for packages that no registry is asked about:
\* the declared version, or "Not specified", latest None, is_outdated False.
Unresolved(entries, ecosystem) ==
    Flatten([n \in 1..NumPackages |->
        IF entries[n].declared
        THEN << Dependency(n,
                    IF entries[n].version.null THEN NotSpecified
                    ELSE entries[n].version.text,
                    None, FALSE,
                    IF entries[n].dev THEN "dev" ELSE "direct", ecosystem, None) >>
        ELSE <<>>])

\* clean_version = re.sub(r'^[~^]', '', version)
CleanVersion(version) ==
    IF version # <<>> /\ Head(version) \in {"~", "^"} THEN Tail(version) ELSE version

\* The version strings of package.json in the model.
NpmVersions ==
    { <<"1.0">>, <<"^", "1.0">>, <<"~", "2.0">>, NotSpecified }

\* The record check_npm_dependencies appends for one entry of direct_deps.
NpmRecords(name, version, is_dev, lookup) ==
    LET clean_version == CleanVersion(version)
        latest_version == LatestVersion(lookup.field)
        type == IF is_dev THEN "dev" ELSE "direct"
    IN CASE lookup.status = "200" ->
              << Dependency(name, clean_version, latest_version,
                            Str(clean_version) # latest_version, type, "npm",
                            NpmLicense(lookup.license)) >>
         [] lookup.status = "raises" ->
              << Dependency(name, clean_version, None, FALSE, type, "npm", None) >>
         [] OTHER -> <<>>

\* check_npm_dependencies on one package.json: direct_deps holds the keys of
\* "dependencies" and then the other keys of "devDependencies", whose values
\* replace those of "dependencies".
NpmDependencies(m) ==
    IF ~m.parses THEN <<>>
    ELSE LET direct == SelectSeq(PackageSeq, LAMBDA n : m.dependencies[n].declared)
             dev_only == SelectSeq(PackageSeq,
                            LAMBDA n : /\ m.devDependencies[n].declared
                                       /\ ~m.dependencies[n].declared)
             direct_deps == direct \o dev_only
         IN Flatten([k \in 1..Len(direct_deps) |->
                LET n == direct_deps[k]
                    version_info == IF m.devDependencies[n].declared
                                    THEN m.devDependencies[n]
                                    ELSE m.dependencies[n]
                IN NpmRecords(n, version_info.version.text, version_info.dev,
                              m.lookup[n])])

\* str.strip(): leading and trailing blanks removed.
RECURSIVE Strip(_)
Strip(s) ==
    IF s # <<>> /\ Head(s) = " " THEN Strip(Tail(s))
    ELSE IF s # <<>> /\ s[Len(s)] = " " THEN Strip(SubSeq(s, 1, Len(s) - 1))
    ELSE s

\* The version constraints of requirements.txt in the model: group 2 of the
\* line's match, None for a bare package name.
PipConstraints ==
    { None, Str(<<"==", "1.0">>), Str(<<">=", " ", "2.0", " ">>) }

\* The record check_pip_dependencies appends for one line of requirements.txt.
PipRecords(name, version_constraint, lookup) ==
    LET current_version == IF version_constraint.null THEN NotSpecified
                           ELSE Strip(version_constraint.text)
        latest_version == LatestVersion(lookup.field)
    IN CASE lookup.status = "200" ->
              << Dependency(name, current_version, latest_version,
                            /\ Str(current_version) # latest_version
                            /\ current_version # NotSpecified,
                            "direct", "pip", PipLicense(lookup.license)) >>
         [] lookup.status = "raises" ->
              << Dependency(name, current_version, None, FALSE, "direct", "pip",
                            None) >>
         [] OTHER -> <<>>

\* check_pip_dependencies on one requirements.txt or one Pipfile.
PipDependencies(m) ==
    IF m.file = "requirements.txt"
    THEN Flatten([n \in 1..NumPackages |->
            IF m.entries[n].declared
            THEN PipRecords(n, m.entries[n].version, m.lookup[n])
            ELSE <<>>])
    ELSE Unresolved(m.entries, "pip")

\* The manifest files of the model.
Declared(versions, devs) ==
    {NoEntry} \cup {Entry(Str(v), d) : v \in versions, d \in devs}

PackageJsons ==
    [file : {"package.json"}, parses : BOOLEAN,
     dependencies : [Packages -> Declared(NpmVersions, {FALSE})],
     devDependencies : [Packages -> Declared(NpmVersions, {TRUE})],
     lookup : [Packages -> Lookups]]

RequirementsFiles ==
    [file : {"requirements.txt"},
     entries : [Packages -> {NoEntry} \cup {Entry(c, FALSE) : c \in PipConstraints}],
     lookup : [Packages -> Lookups]]

\* Files whose packages are listed and not looked up. Maven, Ruby and Rust
\* entries may leave the version out.
ListedFiles ==
    [file : {"Pipfile"},
     entries : [Packages -> Declared({<<"1.0">>, NotSpecified}, BOOLEAN)]]
    \cup
    [file : {"build.gradle"},
     entries : [Packages -> Declared({<<"1.0">>}, BOOLEAN)]]
    \cup
    [file : {"pom.xml", "Gemfile", "Cargo.toml"},
     entries : [Packages -> Declared({<<"1.0">>}, BOOLEAN)
                                \cup {Entry(None, FALSE)}]]

Manifests == PackageJsons \cup RequirementsFiles \cup ListedFiles

-----------------------------------------------------------------------------
(* SpecDeps: the resolver of the file's ecosystem run on one manifest file *)

Resolve(records) ==
    /\ dpc = "start"
    /\ dependencies' = records
    /\ dpc' = "done"
    /\ UNCHANGED manifest
    /\ UNCHANGED <<scoreVars, scanVars, redactVars, jobVars, techVars, walkVars, storeVars, reportVars>>

CheckNpmDependencies ==
    /\ manifest.file = "package.json"
    /\ Resolve(NpmDependencies(manifest))

CheckPipDependencies ==
    /\ manifest.file \in {"requirements.txt", "Pipfile"}
    /\ Resolve(PipDependencies(manifest))

CheckMavenDependencies ==
    /\ manifest.file = "pom.xml"
    /\ Resolve(Unresolved(manifest.entries, "maven"))

CheckGradleDependencies ==
    /\ manifest.file = "build.gradle"
    /\ Resolve(Unresolved(manifest.entries, "gradle"))

CheckRubyDependencies ==
    /\ manifest.file = "Gemfile"
    /\ Resolve(Unresolved(manifest.entries, "ruby"))

CheckRustDependencies ==
    /\ manifest.file = "Cargo.toml"
    /\ Resolve(Unresolved(manifest.entries, "rust"))

DepsInit ==
    /\ ScoreIdle
    /\ ScanIdle
    /\ RedactIdle
    /\ JobIdle
    /\ TechIdle /\ WalkIdle /\ StoreIdle /\ ReportIdle
    /\ manifest \in Manifests
    /\ dependencies = <<>>
    /\ dpc = "start"

DepsNext ==
    \/ CheckNpmDependencies
    \/ CheckPipDependencies
    \/ CheckMavenDependencies
    \/ CheckGradleDependencies
    \/ CheckRubyDependencies
    \/ CheckRustDependencies

SpecDeps == DepsInit /\ [][DepsNext]_vars

\* C10: for every Dependency record of any ecosystem, is_outdated is true iff
\* current_version differs from latest_version, current_version is not
\* 'Not specified' and latest_version is known (not None).
C10_OutdatedRule ==
    dpc = "done" =>
        \A i \in DOMAIN dependencies :
            LET d == dependencies[i]
            IN d.is_outdated <=>
                  /\ Str(d.current_version) # d.latest_version
                  /\ d.current_version # NotSpecified
                  /\ ~d.latest_version.null

-----------------------------------------------------------------------------
(* Claims about registry lookups *)

Resolved == dpc = "done"

\* The manifest is one whose packages are looked up in a registry, and it
\* could be read.
LooksUp ==
    \/ manifest.file = "package.json" /\ manifest.parses
    \/ manifest.file = "requirements.txt"

\* Package n is declared in the manifest.
DeclaredIn(m, n) ==
    IF m.file = "package.json"
    THEN m.dependencies[n].declared \/ m.devDependencies[n].declared
    ELSE m.entries[n].declared

\* The records of the result that are about package n, in order.
RecordsOf(records, n) == SelectSeq(records, LAMBDA d : d.name = n)

\* What the resolver of the manifest's ecosystem returns for m.
ResolverOutput(m) ==
    IF m.file = "package.json" THEN NpmDependencies(m) ELSE PipDependencies(m)

\* C11: for every declared dependency whose registry lookup fails (connection
\* error, timeout or unsuccessful response) the resolver emits exactly one
\* record, with latest_version None, is_outdated false and license None, and
\* the records of every other dependency are those it emits when that lookup
\* succeeds.
C11_FailedLookupRecord ==
    (Resolved /\ LooksUp) =>
        \A n \in Packages :
            (DeclaredIn(manifest, n) /\ manifest.lookup[n].status # "200") =>
                /\ Len(RecordsOf(dependencies, n)) = 1
                /\ RecordsOf(dependencies, n)[1].latest_version = None
                /\ ~RecordsOf(dependencies, n)[1].is_outdated
                /\ RecordsOf(dependencies, n)[1].license = None
                /\ \A ok \in {l \in Lookups : l.status = "200"} :
                     \A o \in Packages \ {n} :
                        RecordsOf(dependencies, o) =
                            RecordsOf(ResolverOutput(
                                [manifest EXCEPT !.lookup[n] = ok]), o)

-----------------------------------------------------------------------------
(* Background analysis jobs: process_apk_analysis, process_github_analysis *)

\* A position of the job: where it is, and in which phase.
At(place, k) == [at |-> place, phase |-> k]

\* analysis_results[analysis_id]; results <<>> stands for None, error "none"
\* for no "error" key.
Analysis(status, results, error) ==
    [status |-> status, results |-> results, error |-> error]

\* The functions process_apk_analysis calls, in order. Each one makes its own
\* temporary directory before its try block and removes it in its finally.
ApkPhases ==
    << "extract_apk_info", "scan_apk_security", "analyze_performance",
       "detect_technology" >>

\* The temporary directory of a phase, and the uploaded APK file.
TempDir(k) == <<"temp_dir", k>>

UploadedFile == <<"file_path", 0>>

\* What may go wrong with an APK job: the archive is no ZIP file (zipfile
\* raises inside each phase's try block), a tool of some detector fails
\* (recovered inside the detector), and one phase whose code before its try
\* block raises (tempfile.mkdtemp, os.path.getsize), 0 for none.
ApkFaults ==
    [archive : {"ok", "corrupt"}, unit_failure : BOOLEAN,
     crash : 0..Len(ApkPhases)]

\* What a phase returns: its full result, or what is left of it when opening
\* the archive raised inside its try block (the initial dictionary; for
\* scan_apk_security a result whose only issue is SCAN_ERROR).
ApkPhaseResult(k, f) ==
    IF f.archive = "corrupt"
    THEN IF ApkPhases[k] = "scan_apk_security" THEN "scan_error" ELSE "defaults"
    ELSE IF f.unit_failure THEN "partial" ELSE "full"

\* The code of phase k before its try block raises.
ApkPhaseRaises(k, f) == f.crash = k

\* analyze_apk: the upload is saved, the record is created and the job queued.
AnalyzeApk ==
    /\ service = "apk"
    /\ jpc = At("request", 0)
    /\ workspaces' = workspaces \cup {UploadedFile}
    /\ record' = Analysis("processing", <<>>, "none")
    /\ jpc' = At("enter", 1)
    /\ UNCHANGED <<service, faults, partial>>
    /\ UNCHANGED <<scoreVars, scanVars, redactVars, depVars, techVars, walkVars, storeVars, reportVars>>

\* A phase starts: the code before its try block, ending in mkdtemp.
ApkEnter ==
    /\ service = "apk"
    /\ jpc.at = "enter"
    /\ IF ApkPhaseRaises(jpc.phase, faults)
       THEN /\ jpc' = At("except", jpc.phase)
            /\ UNCHANGED workspaces
       ELSE /\ workspaces' = workspaces \cup {TempDir(jpc.phase)}
            /\ jpc' = At("body", jpc.phase)
    /\ UNCHANGED <<service, faults, record, partial>>
    /\ UNCHANGED <<scoreVars, scanVars, redactVars, depVars, techVars, walkVars, storeVars, reportVars>>

\* The phase's try block, its except clause, and its finally: rmtree(temp_dir).
ApkLeave ==
    /\ service = "apk"
    /\ jpc.at = "body"
    /\ partial' = Append(partial, ApkPhaseResult(jpc.phase, faults))
    /\ workspaces' = workspaces \ {TempDir(jpc.phase)}
    /\ jpc' = IF jpc.phase < Len(ApkPhases)
              THEN At("enter", jpc.phase + 1) ELSE At("update", 0)
    /\ UNCHANGED <<service, faults, record>>
    /\ UNCHANGED <<scoreVars, scanVars, redactVars, depVars, techVars, walkVars, storeVars, reportVars>>

\* analysis_results[analysis_id].update({"status": "completed", ...})
ApkCompleted ==
    /\ service = "apk"
    /\ jpc.at = "update"
    /\ record' = Analysis("completed", partial, record.error)
    /\ jpc' = At("finally", 0)
    /\ UNCHANGED <<service, faults, partial, workspaces>>
    /\ UNCHANGED <<scoreVars, scanVars, redactVars, depVars, techVars, walkVars, storeVars, reportVars>>

\* except Exception: update({"status": "failed", "error": str(e), ...})
ApkFailed ==
    /\ service = "apk"
    /\ jpc.at = "except"
    /\ record' = Analysis("failed", record.results, "message")
    /\ jpc' = At("finally", 0)
    /\ UNCHANGED <<service, faults, partial, workspaces>>
    /\ UNCHANGED <<scoreVars, scanVars, redactVars, depVars, techVars, walkVars, storeVars, reportVars>>

\* finally: os.remove(file_path)
ApkCleanup ==
    /\ service = "apk"
    /\ jpc.at = "finally"
    /\ workspaces' = workspaces \ {UploadedFile}
    /\ jpc' = At("done", 0)
    /\ UNCHANGED <<service, faults, record, partial>>
    /\ UNCHANGED <<scoreVars, scanVars, redactVars, depVars, techVars, walkVars, storeVars, reportVars>>

\* The functions process_github_analysis calls after clone_repository.
GithubPhases ==
    << "analyze_repo_structure", "analyze_code_quality", "check_dependencies",
       "scan_security_issues" >>

\* os.path.join(TEMP_DIR, analysis_id)
RepoDir == <<"repo_dir", 0>>

\* What may go wrong with a GitHub job: the repository-metadata request to
\* the GitHub API answers another status than 200 or raises; the clone
\* fails; a file read, a size lookup, a registry lookup or the last-commit
\* lookup fails (each recovered where it happens); and one phase out of which
\* an exception escapes (such as a malformed option), 0 for none.
GithubFaults ==
    [metadata : {"ok", "status", "error"}, clone : {"ok", "fails"},
     unit_failure : BOOLEAN, crash : 0..Len(GithubPhases)]

GithubPhaseResult(f) == IF f.unit_failure THEN "partial" ELSE "full"

\* analyze_github_repo: the record is created and the job queued.
AnalyzeGithubRepo ==
    /\ service = "github"
    /\ jpc = At("request", 0)
    /\ record' = Analysis("pending", <<>>, "none")
    /\ jpc' = At("start", 0)
    /\ UNCHANGED <<service, faults, partial, workspaces>>
    /\ UNCHANGED <<scoreVars, scanVars, redactVars, depVars, techVars, walkVars, storeVars, reportVars>>

\* The job starts: status PROCESSING, os.makedirs(repo_dir).
GithubStart ==
    /\ service = "github"
    /\ jpc.at = "start"
    /\ record' = [record EXCEPT !.status = "processing"]
    /\ workspaces' = workspaces \cup {RepoDir}
    /\ jpc' = At("clone", 0)
    /\ UNCHANGED <<service, faults, partial>>
    /\ UNCHANGED <<scoreVars, scanVars, redactVars, depVars, techVars, walkVars, storeVars, reportVars>>

\* clone_repository: the metadata request, then the clone; either failing
\* raises.
CloneRepository ==
    /\ service = "github"
    /\ jpc.at = "clone"
    /\ IF faults.metadata # "ok" \/ faults.clone # "ok"
       THEN /\ jpc' = At("except", 0)
            /\ UNCHANGED partial
       ELSE /\ partial' = Append(partial, GithubPhaseResult(faults))
            /\ jpc' = At("phase", 1)
    /\ UNCHANGED <<service, faults, record, workspaces>>
    /\ UNCHANGED <<scoreVars, scanVars, redactVars, depVars, techVars, walkVars, storeVars, reportVars>>

\* One of the analyses of the cloned repository.
GithubPhase ==
    /\ service = "github"
    /\ jpc.at = "phase"
    /\ IF faults.crash = jpc.phase
       THEN /\ jpc' = At("except", jpc.phase)
            /\ UNCHANGED partial
       ELSE /\ partial' = Append(partial, GithubPhaseResult(faults))
            /\ jpc' = IF jpc.phase < Len(GithubPhases)
                      THEN At("phase", jpc.phase + 1) ELSE At("update", 0)
    /\ UNCHANGED <<service, faults, record, workspaces>>
    /\ UNCHANGED <<scoreVars, scanVars, redactVars, depVars, techVars, walkVars, storeVars, reportVars>>

\* analysis_results[analysis_id].update({"status": COMPLETED, ...})
GithubCompleted ==
    /\ service = "github"
    /\ jpc.at = "update"
    /\ record' = Analysis("completed", partial, record.error)
    /\ jpc' = At("finally", 0)
    /\ UNCHANGED <<service, faults, partial, workspaces>>
    /\ UNCHANGED <<scoreVars, scanVars, redactVars, depVars, techVars, walkVars, storeVars, reportVars>>

\* except Exception: update({"status": FAILED, "error": str(e), ...})
GithubFailed ==
    /\ service = "github"
    /\ jpc.at = "except"
    /\ record' = Analysis("failed", record.results, "message")
    /\ jpc' = At("finally", 0)
    /\ UNCHANGED <<service, faults, partial, workspaces>>
    /\ UNCHANGED <<scoreVars, scanVars, redactVars, depVars, techVars, walkVars, storeVars, reportVars>>

\* The cleanup at the end of the try block instead of in a finally clause.
GithubCleanup_OnSuccessOnly ==
    /\ service = "github"
    /\ jpc.at = "finally"
    /\ workspaces' = IF record.status = "completed"
                     THEN workspaces \ {RepoDir} ELSE workspaces
    /\ jpc' = At("done", 0)
    /\ UNCHANGED <<service, faults, record, partial>>
    /\ UNCHANGED <<scoreVars, scanVars, redactVars, depVars, techVars, walkVars, storeVars, reportVars>>

\* finally: shutil.rmtree(repo_dir)
GithubCleanup ==
    /\ service = "github"
    /\ jpc.at = "finally"
    /\ workspaces' = workspaces \ {RepoDir}
    /\ jpc' = At("done", 0)
    /\ UNCHANGED <<service, faults, record, partial>>
    /\ UNCHANGED <<scoreVars, scanVars, redactVars, depVars, techVars, walkVars, storeVars, reportVars>>

-----------------------------------------------------------------------------
(* SpecJob: one analysis job under one choice of faults *)

JobInit ==
    /\ ScoreIdle
    /\ ScanIdle
    /\ RedactIdle
    /\ DepsIdle
    /\ TechIdle /\ WalkIdle /\ StoreIdle /\ ReportIdle
    /\ \/ service = "apk" /\ faults \in ApkFaults
       \/ service = "github" /\ faults \in GithubFaults
    /\ record = Analysis("none", <<>>, "none")
    /\ partial = <<>>
    /\ workspaces = {}
    /\ jpc = At("request", 0)

JobNext ==
    \/ AnalyzeApk
    \/ ApkEnter
    \/ ApkLeave
    \/ ApkCompleted
    \/ ApkFailed
    \/ ApkCleanup
    \/ AnalyzeGithubRepo
    \/ GithubStart
    \/ CloneRepository
    \/ GithubPhase
    \/ GithubCompleted
    \/ GithubFailed
    \/ GithubCleanup

SpecJob == JobInit /\ [][JobNext]_vars

JobDone == jpc.at = "done"

\* Evidence could not be obtained at all: the APK is no archive that opens,
\* or the repository could not be cloned.
NoEvidence ==
    \/ service = "apk" /\ faults.archive = "corrupt"
    \/ service = "github" /\ faults.clone = "fails"

C13_NoEvidenceFails ==
    (JobDone /\ NoEvidence) =>
        /\ record.status = "failed"
        /\ record.error # "none"
        /\ record.results = <<>>

\* C14: an analysis ends 'failed' only when extraction or clone failed
\* totally; with any other failure it ends 'completed' with results.
C14_FailedOnlyWithoutEvidence ==
    JobDone =>
        /\ record.status = "failed" => NoEvidence
        /\ ~NoEvidence => record.status = "completed" /\ record.results # <<>>

-----------------------------------------------------------------------------
(* Technology detection (apk-analyzer tech_detector.py): each detector counts
   signature hits per technology of its table and reports the technologies
   whose counter passes the category's test, with a scaled confidence.
   hits is [category, count], count being the counters after the matching
   loops; technology is what the detector wrote into results[category]. *)

MaxHits == 11

Categories ==
    {"frameworks", "libraries", "ui_toolkit", "programming_languages",
     "backend_technologies", "analytics_services", "ad_networks"}

\* The signature tables in declaration order; the model follows three
\* technologies of each table, the category's default included.
Indicators(category) ==
    CASE category = "frameworks" -> <<"Flutter", "React Native", "Native Android">>
      [] category = "libraries" -> <<"OkHttp", "Retrofit", "Glide">>
      [] category = "ui_toolkit" -> <<"Material Design", "AndroidX", "Jetpack Compose">>
      [] category = "programming_languages" -> <<"Kotlin", "Java", "C++">>
      [] category = "backend_technologies" -> <<"Firebase", "AWS", "Google Cloud">>
      [] category = "analytics_services" -> <<"Google Analytics", "Firebase Analytics", "Flurry">>
      [] category = "ad_networks" -> <<"AdMob", "Facebook Audience Network", "Unity Ads">>

\* The libraries by name, the second key of detect_libraries' sort.
LibrariesByName == <<"Glide", "OkHttp", "Retrofit">>

\* min(100, data["confidence"] * k): k of each category
ScaleFactor(category) ==
    CASE category \in {"frameworks", "libraries", "analytics_services"} -> 25
      [] category \in {"ui_toolkit", "programming_languages"} -> 10
      [] category = "backend_technologies" -> 15
      [] category = "ad_networks" -> 20

\* if data["confidence"] >= 2 (frameworks), if data["confidence"] > 0 (others)
Threshold_AnyHit(category) == 1

Threshold(category) == IF category = "frameworks" THEN 2 ELSE 1

Confidence_Unscaled(category, n) == Min(100, n)

Confidence(category, n) == Min(100, n * ScaleFactor(category))

\* list.sort(key=lambda x: x["confidence"], reverse=True): stable, highest first
SortByConfidence(names, conf) ==
    Flatten([k \in 1..101 |-> SelectSeq(names, LAMBDA n : conf[n] = 101 - k)])

\* What a detector leaves in results[category]: the detected names, the
\* confidence written for each, the names marked primary and the
\* alternative names.
Fingerprint(names, conf, primary, alternatives) ==
    [detected |-> names, confidence |-> conf,
     primary |-> primary, alternatives |-> alternatives]

\* The common tail of the list detectors: collect in table order what passes
\* the test, scale, sort.
Detected(category, order, count) ==
    LET found == SelectSeq(order, LAMBDA n : count[n] >= Threshold(category))
        conf == [n \in Range(found) |-> Confidence(category, count[n])]
    IN Fingerprint(SortByConfidence(found, conf), conf, {}, <<>>)

\* detect_frameworks: with nothing detected, Native Android is assumed at 60.
DetectFrameworks(count) ==
    LET fp == Detected("frameworks", Indicators("frameworks"), count)
        weak == \/ fp.detected = <<>>
                \/ /\ Len(fp.detected) = 1
                   /\ fp.detected[1] = "Native Android"
                   /\ fp.confidence["Native Android"] < 50
    IN IF weak /\ "Native Android" \notin Range(fp.detected)
       THEN Fingerprint(Append(fp.detected, "Native Android"),
                        [n \in Range(fp.detected) \cup {"Native Android"} |->
                            IF n = "Native Android" THEN 60 ELSE fp.confidence[n]],
                        {}, <<>>)
       ELSE fp

\* detect_libraries: sorted by (-confidence, name)
DetectLibraries(count) == Detected("libraries", LibrariesByName, count)

\* The loop of detect_ui_toolkit over the table: a toolkit replaces the
\* primary when its counter is strictly above the best so far.
RECURSIVE PrimaryToolkit(_, _, _, _)
PrimaryToolkit(count, i, primary_toolkit, max_confidence) ==
    LET order == Indicators("ui_toolkit")
    IN IF i > Len(order) THEN <<primary_toolkit, max_confidence>>
       ELSE IF count[order[i]] > max_confidence
            THEN PrimaryToolkit(count, i + 1, order[i], count[order[i]])
            ELSE PrimaryToolkit(count, i + 1, primary_toolkit, max_confidence)

DetectUiToolkit(count) ==
    LET best == PrimaryToolkit(count, 1, "None", 0)
    IN IF best[1] # "None"
       THEN Fingerprint(<<best[1]>>,
                        [n \in {best[1]} |-> Confidence("ui_toolkit", best[2])],
                        {best[1]},
                        SelectSeq(Indicators("ui_toolkit"),
                                  LAMBDA n : n # best[1] /\ count[n] > 0))
       ELSE Fingerprint(<<"Unknown/Native Android UI">>,
                        [n \in {"Unknown/Native Android UI"} |-> 50], {}, <<>>)

\* detect_programming_languages: the first of the sorted list is primary;
\* with nothing detected, Java is assumed at 60 and primary.
DetectProgrammingLanguages(count) ==
    LET fp == Detected("programming_languages",
                       Indicators("programming_languages"), count)
    IN IF fp.detected # <<>>
       THEN Fingerprint(fp.detected, fp.confidence, {fp.detected[1]}, <<>>)
       ELSE Fingerprint(<<"Java">>, [n \in {"Java"} |-> 60], {"Java"}, <<>>)

TechInit ==
    /\ ScoreIdle /\ ScanIdle /\ RedactIdle /\ DepsIdle /\ JobIdle /\ WalkIdle /\ StoreIdle /\ ReportIdle
    /\ \E category \in Categories :
        \E count \in [Range(Indicators(category)) -> 0..MaxHits] :
            hits = [category |-> category, count |-> count]
    /\ technology = <<>>
    /\ tpc = "start"

\* One detector of detect_technology, from its counters to its results.
DetectTechnology ==
    /\ tpc = "start"
    /\ technology' =
        CASE hits.category = "frameworks" -> DetectFrameworks(hits.count)
          [] hits.category = "libraries" -> DetectLibraries(hits.count)
          [] hits.category = "ui_toolkit" -> DetectUiToolkit(hits.count)
          [] hits.category = "programming_languages" ->
                DetectProgrammingLanguages(hits.count)
          [] OTHER -> Detected(hits.category, Indicators(hits.category), hits.count)
    /\ tpc' = "done"
    /\ UNCHANGED <<hits, scoreVars, scanVars, redactVars, depVars, jobVars, walkVars, storeVars, reportVars>>

TechNext == DetectTechnology

SpecTech == TechInit /\ [][TechNext]_vars

TechDone == tpc = "done"

Hits(n) == IF n \in DOMAIN hits.count THEN hits.count[n] ELSE 0

Assumed(category) ==
    CASE category = "frameworks" -> {"Native Android"}
      [] category = "programming_languages" -> {"Java"}
      [] OTHER -> {}

BelowThreshold(n) == Hits(n) < (IF hits.category = "frameworks" THEN 2 ELSE 1)

\* C16 as stated: a technology whose hits are below its category's
\* threshold (2 for frameworks, 1 elsewhere) is never in the detected list.
C16_BelowThresholdNeverDetected ==
    TechDone =>
        \A n \in DOMAIN hits.count :
            BelowThreshold(n) => n \notin Range(technology.detected)

\* C16: a technology whose hits are below its category's threshold is in the
\* detected list only as the technology the detector assumes (Native Android
\* for frameworks, Java for languages) when no technology of the table
\* reached the threshold; otherwise it is at most an alternative.
C16_BelowThresholdOnlyAssumed ==
    TechDone =>
        \A n \in DOMAIN hits.count :
            (BelowThreshold(n) /\ n \in Range(technology.detected)) =>
                /\ n \in Assumed(hits.category)
                /\ \A m \in DOMAIN hits.count : BelowThreshold(m)

C16_Witness ==
    /\ TechDone
    /\ hits.category = "frameworks"
    /\ hits.count["Flutter"] = 1
    /\ hits.count["React Native"] = 3
    /\ hits.count["Native Android"] = 1
    /\ technology.detected = <<"React Native">>

\* C17: the primary UI toolkit and the primary programming language are the
\* candidate with the highest confidence min(100, hits * 10), the
\* earliest-declared one when several are tied, and exactly one is primary.
C17_PrimaryIsHighestConfidence ==
    (TechDone /\ hits.category \in {"ui_toolkit", "programming_languages"}) =>
        LET order == Indicators(hits.category)
            conf(i) == Min(100, Hits(order[i]) * 10)
            candidates == {i \in DOMAIN order : Hits(order[i]) > 0}
            best == {i \in candidates : \A j \in candidates : conf(j) <= conf(i)}
            first == CHOOSE i \in best : \A j \in best : i <= j
        IN candidates # {} => technology.primary = {order[first]}

-----------------------------------------------------------------------------
(* Claims about version prefixes *)

\* The entry of package n that check_npm_dependencies works on: the one of
\* "devDependencies" when there is one, else the one of "dependencies".
DirectDep(m, n) ==
    IF m.devDependencies[n].declared THEN m.devDependencies[n] ELSE m.dependencies[n]

Prefixed(version) == version # <<>> /\ Head(version) \in {"^", "~"}

\* C18: for a dependency of a package.json declared with a version that
\* begins with '^' or '~', the resolver emits exactly one record, whose
\* current_version is the version without that prefix, and whose is_outdated
\* is true when the registry's latest version differs from it.
C18_PrefixStripped ==
    (Resolved /\ manifest.file = "package.json" /\ manifest.parses) =>
        \A n \in Packages :
            LET dep == DirectDep(manifest, n)
                records == RecordsOf(dependencies, n)
            IN (dep.declared /\ Prefixed(dep.version.text)) =>
                /\ Len(records) = 1
                /\ records[1].current_version = Tail(dep.version.text)
                /\ ( /\ manifest.lookup[n].status = "200"
                     /\ LatestVersion(manifest.lookup[n].field)
                            # Str(Tail(dep.version.text)) )
                        => records[1].is_outdated

-----------------------------------------------------------------------------
(* Claims about the manifest checks *)

ApkScan == kind = "apk_security"

\* The issues of the result with the given id.
IssuesWithId(id) == SelectSeq(result.issues, LAMBDA x : x.issue_id = id)

\* The ids of the issues check_manifest_security can emit.
ManifestIssueTypes ==
    {"ALLOW_BACKUP_ENABLED", "DEBUGGABLE_APP", "EXPORTED_COMPONENTS",
     "MISSING_NETWORK_SECURITY_CONFIG"}

\* The manifest text the scan reads says android:debuggable="true".
DebuggableText ==
    /\ evidence.extractable
    /\ evidence.manifest.present
    /\ ManifestContent(evidence.manifest).debuggable

\* C19: a scan of evidence whose manifest text contains
\* android:debuggable="true" returns exactly one DEBUGGABLE_APP issue, of
\* severity high, and every manifest check contributes at most one issue to a
\* scan.
C19_OneDebuggableIssue ==
    (Done /\ ApkScan) =>
        /\ DebuggableText =>
            /\ Len(IssuesWithId("DEBUGGABLE_APP")) = 1
            /\ IssuesWithId("DEBUGGABLE_APP")[1].severity = "high"
        /\ \A id \in ManifestIssueTypes : Len(IssuesWithId(id)) <= 1

C19_Witness ==
    /\ Done /\ ApkScan /\ DebuggableText
    /\ evidence.manifest.exported = 2
    /\ evidence.dex_count > 0
    /\ Len(IssuesWithId("DEBUGGABLE_APP")) = 1
    /\ Len(IssuesWithId("EXPORTED_COMPONENTS")) = 1

-----------------------------------------------------------------------------
(* Claims about the order of the issues *)

\* The issue list another run over the same evidence returns when its match
\* sets are iterated in the given order.
IssuesOfRun(order) ==
    CASE kind = "github_security" -> SecurityResult(SecurityIssuesFound(evidence)).issues
      [] kind = "code_quality" -> QualityResult(QualityIssuesFound(evidence)).issues
      [] kind = "apk_security" ->
            IF evidence.extractable THEN ApkIssuesFound(evidence, order)
            ELSE << ScanError >>

\* C20: the final issue list of a scan is a function of the evidence: any
\* other run over the same evidence, whatever the order in which its match
\* collections are iterated, returns the same issues in the same order.
C20_OrderDeterministic ==
    Done => \A order \in MatchOrders : result.issues = IssuesOfRun(order)

-----------------------------------------------------------------------------
(* Claims about the per-file cap of a detector *)

\* The issues a scan emitted for detector id on file path.
EmittedFor(id, path) ==
    SelectSeq(detected, LAMBDA x : x.issue_id = id /\ x.file_path = path)

\* C21: for every detector and every scanned file at most 5 issues are
\* emitted for the pair, and in the APK code scan there is one for each of
\* the first 5 unique match values of the detector in the file.
C21_FivePerDetectorAndFile ==
    Done =>
        /\ \A i \in DOMAIN detected :
              Len(EmittedFor(detected[i].issue_id, detected[i].file_path)) <= 5
        /\ (ApkScan /\ evidence.extractable /\ Len(detected) < CodeIssueCap) =>
              \A p \in DOMAIN SensitivePatterns : \A k \in 1..evidence.dex_count :
                  Len(EmittedFor(SensitivePatterns[p].id, k)) =
                      Min(5, Cardinality(Range(evidence.dex.matches[p])))

-----------------------------------------------------------------------------
(* The file walk of the repository scanners: scan_for_secrets,
   scan_for_vulnerabilities (security_analyzer.py) and analyze_code_quality
   (code_analyzer.py) each walk the clone and list the files they will read.
   A path segment is a sequence of pieces of text, '.' being a piece of its
   own, so that "starts with", "equals" and "contains" are told apart. *)

\* 1024 * 1024
MaxFileSize == 1048576

\* options.get("max_files", 500)
MaxFilesToAnalyze == 500

Scanners == {"secrets", "vulnerabilities", "code_quality"}

\* The directory of the file, relative to the clone.
Directories ==
    { <<"src">>, <<".", "github">>, <<"build">>, <<"re", "build">>,
      <<"env">>, <<"migrations">> }

\* The file's name without its extension.
FileNames == { <<"main">>, <<".", "main">> }

Extensions == {".py", ".md", ".png"}

\* A file of the walk: its rel_path is directory/name+ext, size is what
\* os.path.getsize returns, before counts the files the scanner listed
\* earlier in the walk.
WalkedFiles ==
    [directory : Directories, name : FileNames, ext : Extensions,
     size : {MaxFileSize - 1, MaxFileSize, MaxFileSize + 1},
     before : {0, MaxFilesToAnalyze - 1, MaxFilesToAnalyze}]

\* rel_path.split(os.sep)
Segments(f) == << f.directory, Append(f.name, f.ext) >>

\* any(segment.startswith('.') for segment in rel_path.split(os.sep))
Hidden(f) == \E i \in DOMAIN Segments(f) : Head(Segments(f)[i]) = "."

\* The directory names of the security scanners' skip list.
SkippedDirectories == {"node_modules", "venv", "env", "__pycache__", "dist", "build"}

\* The names of analyze_code_quality's skip list.
IgnoredNames == {"node_modules", "venv", "__pycache__", "build", "dist", "migrations"}

\* any(dir_name in rel_path.split(os.sep) for dir_name in [...])
InSkippedDirectory(f) ==
    \E i \in DOMAIN Segments(f) :
        Len(Segments(f)[i]) = 1 /\ Segments(f)[i][1] \in SkippedDirectories

\* any(ignored in rel_path for ignored in [...]): a substring of the path
InIgnoredPath(f) ==
    \E i \in DOMAIN Segments(f) : Range(Segments(f)[i]) \cap IgnoredNames # {}

\* The file types a scanner reads: every type but the binary extensions for
\* scan_for_secrets, the extensions of a language for the other two.
EligibleType(scanner, ext) ==
    IF scanner = "secrets" THEN ext # ".png" ELSE ext = ".py"

\* The loop body of scan_for_secrets over os.walk: is the file appended to
\* files_to_scan.
SecretsListed(f) ==
    /\ ~(f.size > MaxFileSize)
    /\ EligibleType("secrets", f.ext)
    /\ ~Hidden(f)
    /\ ~InSkippedDirectory(f)

\* The loop body of scan_for_vulnerabilities: is the file put in
\* language_file_map.
VulnerabilitiesListed(f) ==
    /\ ~(f.size > MaxFileSize)
    /\ ~Hidden(f)
    /\ ~InSkippedDirectory(f)
    /\ EligibleType("vulnerabilities", f.ext)

\* The loop body of analyze_code_quality and the cut of files_to_analyze to
\* max_files_to_analyze.
QualityListed(f) ==
    /\ ~Hidden(f)
    /\ ~InIgnoredPath(f)
    /\ EligibleType("code_quality", f.ext)
    /\ ~(f.size > MaxFileSize)
    /\ f.before < MaxFilesToAnalyze

WalkInit ==
    /\ ScoreIdle /\ ScanIdle /\ RedactIdle /\ DepsIdle /\ JobIdle /\ TechIdle /\ StoreIdle /\ ReportIdle
    /\ \E scanner \in Scanners : \E f \in WalkedFiles :
        walked = [scanner |-> scanner, file |-> f]
    /\ listed = FALSE
    /\ wpc = "start"

Walk(scanner, outcome) ==
    /\ wpc = "start"
    /\ walked.scanner = scanner
    /\ listed' = outcome
    /\ wpc' = "done"
    /\ UNCHANGED walked
    /\ UNCHANGED <<scoreVars, scanVars, redactVars, depVars, jobVars, techVars, storeVars, reportVars>>

WalkForSecrets == Walk("secrets", SecretsListed(walked.file))

WalkForVulnerabilities == Walk("vulnerabilities", VulnerabilitiesListed(walked.file))

WalkForQuality == Walk("code_quality", QualityListed(walked.file))

WalkNext == WalkForSecrets \/ WalkForVulnerabilities \/ WalkForQuality

SpecWalk == WalkInit /\ [][WalkNext]_vars

Walked == wpc = "done"

\* C22: a file of a type the scanner reads is left out exactly when a segment
\* of its path starts with '.', or a segment equals one of the scanner's
\* vendor directory names, or its size is above 1 MiB (a file of exactly
\* 1 MiB is scanned).
C22_ExclusionRule ==
    Walked =>
        LET f == walked.file
            vendor == IF walked.scanner = "code_quality"
                      THEN IgnoredNames ELSE SkippedDirectories
            excluded ==
                \/ \E i \in DOMAIN Segments(f) : Head(Segments(f)[i]) = "."
                \/ \E i \in DOMAIN Segments(f) : \E v \in vendor : Segments(f)[i] = <<v>>
                \/ f.size > 1048576
        IN EligibleType(walked.scanner, f.ext) => (listed <=> ~excluded)

-----------------------------------------------------------------------------
(* Claims about a failed manifest dump *)

\* The ids of the issues that are derived from the manifest dump.
ManifestDerivedTypes ==
    ManifestIssueTypes
        \cup {"USES_CLEARTEXT_TRAFFIC", "DANGEROUS_PERMISSIONS", "EXCESSIVE_PERMISSIONS"}

\* C23: when the aapt dump of the manifest fails or returns no text, the scan
\* emits no issue derived from the manifest.
C23_NoDumpNoManifestIssue ==
    (Done /\ ApkScan /\ evidence.extractable /\ evidence.manifest.present
          /\ evidence.manifest.aapt \in {"raises", "empty"}) =>
        \A id \in ManifestDerivedTypes : IssuesWithId(id) = <<>>

-----------------------------------------------------------------------------
(* Claims about the consistency of the APK scan result *)

\* The issues of the result that have severity s.
CountOf(s) == Cardinality({i \in DOMAIN result.issues : result.issues[i].severity = s})

\* C29: every result scan_apk_security returns, the one returned after an
\* exception (one SCAN_ERROR issue of severity info) included, has
\* issues_count equal to the length of issues, severity_counts that sum to
\* issues_count and count the issues of each severity, and risk_score equal
\* to calculate_risk_score of the returned issues.
C29_ResultConsistent ==
    (Done /\ ApkScan) =>
        /\ result.issues_count = Len(result.issues)
        /\ \A s \in Severities : result.severity_counts[s] = CountOf(s)
        /\ result.severity_counts["critical"] + result.severity_counts["high"]
             + result.severity_counts["medium"] + result.severity_counts["low"]
             + result.severity_counts["info"] = result.issues_count
        /\ result.risk_score = CalculateRiskScore([s \in Severities |-> CountOf(s)])
        /\ ~evidence.extractable =>
              /\ Len(IssuesWithId("SCAN_ERROR")) = 1
              /\ IssuesWithId("SCAN_ERROR")[1].severity = "info"

C29_Witness ==
    /\ Done /\ ApkScan
    /\ ~evidence.extractable
    /\ result.issues_count = 1
    /\ result.severity_counts["info"] = 1
    /\ result.risk_score = 0

-----------------------------------------------------------------------------
(* The result maps of the services and the endpoints that read and change
   them. "apk" is app/main.py of the APK analyzer and its analysis_results,
   "apk_router" is app/api/routes.py and its own analysis_results (the
   background task of both is app.main.process_apk_analysis), "github" is the
   GitHub analyzer and "ai" the AI service (its field "result" is held as
   results). Callers are the users get_current_user hands to an endpoint. *)

NumAnalyses == 2

AnalysisIds == 1..NumAnalyses

Services == {"apk", "apk_router", "github", "ai"}

Callers ==
    { [id |-> 1, role |-> "user"], [id |-> 2, role |-> "user"],
      [id |-> 3, role |-> "admin"] }

NoTask == [service |-> "none", state |-> "none"]

NoResponse == [endpoint |-> "none"]

\* The dictionary an analyze endpoint puts in its map.
NewRecord(svc, caller) ==
    [user_id |-> caller.id,
     status |-> IF svc = "github" THEN "pending" ELSE "processing",
     results |-> "null"]

\* A check of the caller's role alone: every signed-in caller passes.
Forbidden_RoleOnly(analysis, current_user) ==
    current_user.role \notin {"admin", "user"}

\* analysis["user_id"] != current_user.id and current_user.role != "admin"
Forbidden(analysis, current_user) ==
    analysis.user_id # current_user.id /\ current_user.role # "admin"

\* analysis_results[analysis_id] = {...} for an id not in the map
Insert(results, analysis_id, analysis) ==
    [i \in DOMAIN results \cup {analysis_id} |->
        IF i = analysis_id THEN analysis ELSE results[i]]

\* del analysis_results[analysis_id]
Delete(results, analysis_id) == [i \in DOMAIN results \ {analysis_id} |-> results[i]]

\* An update that creates the record, owned by nobody, when the id is not in
\* the map.
Update_Upsert(results, analysis_id, fields) ==
    [i \in DOMAIN results \cup {analysis_id} |->
        IF i # analysis_id THEN results[i]
        ELSE IF i \in DOMAIN results THEN fields @@ results[i]
        ELSE fields @@ [user_id |-> 0, results |-> "null"]]

\* analysis_results[analysis_id].update({...}): a KeyError (the map is left
\* as it is) when the id is not in the map.
Update(results, analysis_id, fields) ==
    IF analysis_id \in DOMAIN results
    THEN [results EXCEPT ![analysis_id] = fields @@ @]
    ELSE results

\* The dictionaries the jobs update their record with.
Completed == [status |-> "completed", results |-> "results"]

\* A failure that also stores what the stages had produced.
Failed_Partial == [status |-> "failed", error |-> "error", results |-> "results"]

Failed == [status |-> "failed", error |-> "error"]

\* The map a service's background task works on.
JobMap(svc) == IF svc = "apk_router" THEN "apk" ELSE svc

StoreInit ==
    /\ ScoreIdle /\ ScanIdle /\ RedactIdle /\ DepsIdle /\ JobIdle /\ TechIdle /\ WalkIdle /\ ReportIdle
    /\ store = [s \in Services |-> <<>>]
    /\ tasks = [i \in AnalysisIds |-> NoTask]
    /\ uploads = {}
    /\ response = NoResponse

Others == <<scoreVars, scanVars, redactVars, depVars, jobVars, techVars, walkVars, reportVars>>

\* An analyze endpoint: analyze_apk of main.py and of routes.py,
\* analyze_github_repo, analyze_with_ai. The id is a fresh uuid4.
Analyze(svc, current_user) ==
    /\ \E analysis_id \in AnalysisIds :
        /\ tasks[analysis_id] = NoTask
        /\ \A i \in AnalysisIds : i < analysis_id => tasks[i] # NoTask
        /\ store' = [store EXCEPT ![svc] =
                        Insert(@, analysis_id, NewRecord(svc, current_user))]
        /\ tasks' = [tasks EXCEPT ![analysis_id] =
                        [service |-> svc, state |-> "queued"]]
        /\ uploads' = IF svc \in {"apk", "apk_router"}
                      THEN uploads \cup {analysis_id} ELSE uploads
    /\ UNCHANGED response
    /\ UNCHANGED Others

\* A task that is started again after it has ended.
Queued_Again(analysis_id) == tasks[analysis_id].state \in {"queued", "done"}

\* A task add_task handed over and not yet started.
Queued(analysis_id) == tasks[analysis_id].state = "queued"

\* process_apk_analysis, which has no await in it: the four services, the
\* update of the record, the removal of the upload. The services raise when
\* the upload is gone and may raise otherwise; when the id is not in the map
\* the update raises, and so does the one of the except branch.
ProcessApkAnalysis(analysis_id) ==
    /\ Queued(analysis_id)
    /\ tasks[analysis_id].service \in {"apk", "apk_router"}
    /\ \E fields \in {Completed, Failed} :
        /\ analysis_id \notin uploads => fields = Failed
        /\ store' = [store EXCEPT !["apk"] = Update(@, analysis_id, fields)]
    /\ tasks' = [tasks EXCEPT ![analysis_id].state =
                    IF analysis_id \in DOMAIN store["apk"] THEN "done" ELSE "raised"]
    /\ uploads' = uploads \ {analysis_id}
    /\ UNCHANGED response
    /\ UNCHANGED Others

\* process_github_analysis up to its first await: the status becomes
\* processing. process_ai_analysis up to its await changes nothing.
StartJob(analysis_id) ==
    /\ Queued(analysis_id)
    /\ tasks[analysis_id].service \in {"github", "ai"}
    /\ store' = IF tasks[analysis_id].service = "github"
                THEN [store EXCEPT !["github"][analysis_id].status = "processing"]
                ELSE store
    /\ tasks' = [tasks EXCEPT ![analysis_id].state = "running"]
    /\ UNCHANGED <<uploads, response>>
    /\ UNCHANGED Others

\* The rest of process_github_analysis and of process_ai_analysis: the
\* stages end or one of them raises, and the record is updated.
FinishJob(analysis_id) ==
    /\ tasks[analysis_id].state = "running"
    /\ \E fields \in {Completed, Failed} :
        store' = [store EXCEPT ![JobMap(tasks[analysis_id].service)] =
                    Update(@, analysis_id, fields)]
    /\ tasks' = [tasks EXCEPT ![analysis_id].state = "done"]
    /\ UNCHANGED <<uploads, response>>
    /\ UNCHANGED Others

Answer(endpoint, svc, current_user, analysis_id, code, body) ==
    [endpoint |-> endpoint, service |-> svc, caller |-> current_user,
     id |-> analysis_id, code |-> code, body |-> body]

\* get_analysis_result of the four services (get_ai_result for "ai").
GetAnalysisResult(svc, current_user, analysis_id) ==
    /\ response' =
        IF analysis_id \notin DOMAIN store[svc]
        THEN Answer("get", svc, current_user, analysis_id, 404, <<>>)
        ELSE IF Forbidden(store[svc][analysis_id], current_user)
        THEN Answer("get", svc, current_user, analysis_id, 403, <<>>)
        ELSE Answer("get", svc, current_user, analysis_id, 200,
                    << store[svc][analysis_id] >>)
    /\ UNCHANGED <<store, tasks, uploads>>
    /\ UNCHANGED Others

\* list_analyses (list_ai_results for "ai"): the records of the caller, all
\* of them for an admin.
ListAnalyses(svc, current_user) ==
    /\ response' =
        Answer("list", svc, current_user, 0, 200,
               {i \in DOMAIN store[svc] :
                    \/ store[svc][i].user_id = current_user.id
                    \/ current_user.role = "admin"})
    /\ UNCHANGED <<store, tasks, uploads>>
    /\ UNCHANGED Others

\* delete_analysis of routes.py.
DeleteAnalysis(current_user, analysis_id) ==
    LET results == store["apk_router"]
        answer(code) == Answer("delete", "apk_router", current_user, analysis_id, code, <<>>)
    IN /\ IF analysis_id \notin DOMAIN results
          THEN response' = answer(404) /\ UNCHANGED <<store, uploads>>
          ELSE IF Forbidden(results[analysis_id], current_user)
          THEN response' = answer(403) /\ UNCHANGED <<store, uploads>>
          ELSE /\ response' = answer(200)
               /\ uploads' = uploads \ {analysis_id}
               /\ store' = [store EXCEPT !["apk_router"] = Delete(@, analysis_id)]
       /\ UNCHANGED tasks
       /\ UNCHANGED Others

Jobs ==
    \E analysis_id \in AnalysisIds :
        \/ ProcessApkAnalysis(analysis_id)
        \/ StartJob(analysis_id)
        \/ FinishJob(analysis_id)

Requests ==
    \E current_user \in Callers :
        \/ \E svc \in Services : Analyze(svc, current_user)
        \/ \E svc \in Services, analysis_id \in AnalysisIds :
                GetAnalysisResult(svc, current_user, analysis_id)
        \/ \E svc \in Services : ListAnalyses(svc, current_user)
        \/ \E analysis_id \in AnalysisIds : DeleteAnalysis(current_user, analysis_id)

StoreNext == Jobs \/ Requests

SpecStore == StoreInit /\ [][StoreNext]_vars

-----------------------------------------------------------------------------
(* Claims about the result maps *)

\* The analysis was registered by the router and delete_analysis has removed
\* it from the router's map.
Deleted(analysis_id) ==
    /\ tasks[analysis_id].service = "apk_router"
    /\ analysis_id \notin DOMAIN store["apk_router"]

\* C24: once delete_analysis has removed an analysis, no step of
\* process_apk_analysis, whenever it runs, puts the id back into a result map
\* or updates a record under it: the job's results are discarded.
C24_DeletedStaysDeleted ==
    [][\A analysis_id \in AnalysisIds :
          Deleted(analysis_id) =>
              /\ analysis_id \notin DOMAIN store'["apk_router"]
              /\ analysis_id \notin DOMAIN store'["apk"]]_vars

C24_Witness ==
    \E analysis_id \in AnalysisIds :
        /\ Deleted(analysis_id)
        /\ tasks[analysis_id].state = "raised"
        /\ response.endpoint = "delete" /\ response.code = 200
        /\ response.id = analysis_id

\* C25: a record is created pending (GitHub) or processing (APK, AI), its
\* status only moves pending -> processing -> completed or failed, and once
\* it is completed or failed no step changes the record.
C25_StatusMovesForward ==
    [][\A svc \in Services :
          /\ \A i \in DOMAIN store'[svc] \ DOMAIN store[svc] :
                store'[svc][i].status =
                    IF svc = "github" THEN "pending" ELSE "processing"
          /\ \A i \in DOMAIN store[svc] \cap DOMAIN store'[svc] :
                LET old == store[svc][i]
                    new == store'[svc][i]
                IN /\ old.status \in {"completed", "failed"} => new = old
                   /\ new.status # old.status =>
                        <<old.status, new.status>> \in
                            { <<"pending", "processing">>,
                              <<"processing", "completed">>,
                              <<"processing", "failed">> }]_vars

C25_Witness ==
    \E i \in DOMAIN store["github"] :
        /\ store["github"][i].status = "failed"
        /\ tasks[i].state = "done"
        /\ response.endpoint = "get" /\ response.service = "github"
        /\ response.id = i /\ response.code = 200
        /\ response.body = << store["github"][i] >>

\* C27: in every state of the result maps a record's results are non-null
\* iff its status is completed, and a failed record has an error string and
\* null results.
C27_ResultsIffCompleted ==
    \A svc \in DOMAIN store : \A i \in DOMAIN store[svc] :
        LET analysis == store[svc][i]
        IN /\ analysis.results # "null" <=> analysis.status = "completed"
           /\ analysis.status = "failed" =>
                /\ "error" \in DOMAIN analysis
                /\ analysis.results = "null"

C27_Witness ==
    /\ \E i \in DOMAIN store["ai"] : store["ai"][i].status = "completed"
    /\ \E i \in DOMAIN store["apk"] :
        /\ store["apk"][i].status = "failed"
        /\ store["apk"][i].error = "error"

\* The caller is the record's owner or an admin.
OwnerOrAdmin(analysis, caller) ==
    analysis.user_id = caller.id \/ caller.role = "admin"

\* C28: a record is returned, listed or removed only for its owner or an
\* admin; another caller of get or delete is answered 403 and the maps are
\* left as they were; a record's user_id never changes.
C28_OwnerOrAdminOnly ==
    [][/\ \A svc \in Services :
            /\ \A i \in DOMAIN store[svc] \cap DOMAIN store'[svc] :
                    store'[svc][i].user_id = store[svc][i].user_id
            /\ \A i \in DOMAIN store[svc] \ DOMAIN store'[svc] :
                    /\ response'.endpoint = "delete" /\ response'.code = 200
                    /\ response'.service = svc /\ response'.id = i
                    /\ OwnerOrAdmin(store[svc][i], response'.caller)
       /\ (response' # response /\ response'.endpoint = "get"
                /\ response'.code = 200) =>
            /\ response'.body = << store[response'.service][response'.id] >>
            /\ OwnerOrAdmin(response'.body[1], response'.caller)
       /\ (response' # response /\ response'.endpoint = "list") =>
            \A i \in response'.body :
                OwnerOrAdmin(store[response'.service][i], response'.caller)
       /\ (response' # response /\ response'.endpoint \in {"get", "delete"}
                /\ response'.id \in DOMAIN store[response'.service]
                /\ ~OwnerOrAdmin(store[response'.service][response'.id],
                                 response'.caller)) =>
            response'.code = 403
       /\ (response' # response /\ response'.code = 403) => store' = store
      ]_vars

C28_Witness ==
    /\ response.endpoint = "delete" /\ response.code = 403
    /\ response.id \in DOMAIN store["apk_router"]
    /\ store["apk_router"][response.id].user_id # response.caller.id
    /\ \E i \in DOMAIN store["github"] :
            store["github"][i].user_id = response.caller.id

-----------------------------------------------------------------------------
(* The event loop runs every background task that add_task handed over, and
   every stage a task awaits ends: each job step that stays enabled is
   eventually taken. Requests are under no such obligation. *)

JobFairness ==
    \A analysis_id \in AnalysisIds :
        /\ WF_vars(ProcessApkAnalysis(analysis_id))
        /\ WF_vars(StartJob(analysis_id))
        /\ WF_vars(FinishJob(analysis_id))

SpecStoreFair == SpecStore /\ JobFairness

\* The record of the analysis is gone from the service's map, or it is
\* completed or failed.
Settled(svc, analysis_id) ==
    \/ analysis_id \notin DOMAIN store[svc]
    \/ store[svc][analysis_id].status \in {"completed", "failed"}

\* Every analysis a service accepted eventually settles.
EventuallySettled(svc) ==
    \A analysis_id \in AnalysisIds :
        (analysis_id \in DOMAIN store[svc]) ~> Settled(svc, analysis_id)

\* C26: every analysis accepted by an analyze endpoint, that of main.py and
\* that of routes.py alike, eventually is completed or failed unless its
\* record is deleted.
C26_EventuallySettled == \A svc \in Services : EventuallySettled(svc)

\* The same for the analyses registered in the maps the jobs write to.
C26_SettledInOwnMap == \A svc \in Services \ {"apk_router"} : EventuallySettled(svc)

-----------------------------------------------------------------------------
(* SpecReport: the report service. generate_report stores a report and hands
   process_report_generation to the background tasks; the task awaits
   fetch_analysis_data, writes the report file and updates the report;
   delete_report removes the file and the report. Every request is made by
   the user the service's get_current_user returns. *)

NumReports == 2

ReportIds == 1..NumReports

\* 'pdf', 'markdown', 'html', 'sarif', 'json', and a format the service
\* does not know
Formats == {"pdf", "markdown", "html", "sarif", "json", "docx"}

\* The mock user of get_current_user.
ReportUser == [id |-> "user123", role |-> "user"]

NoGeneration == [format |-> "none", state |-> "none"]

\* report["owner_id"] != current_user.id and current_user.role != "admin"
NotAuthorized(report, current_user) ==
    report.owner_id # current_user.id /\ current_user.role # "admin"

\* os.path.join(REPORTS_DIR, f"{report_id}.{format}")
ReportFilePath(report_id, format) == <<report_id, format>>

ReportInit ==
    /\ ScoreIdle /\ ScanIdle /\ RedactIdle /\ DepsIdle /\ JobIdle /\ TechIdle
    /\ WalkIdle /\ StoreIdle
    /\ reports = <<>>
    /\ generation = [i \in ReportIds |-> NoGeneration]
    /\ report_files = {}

NotReports ==
    <<scoreVars, scanVars, redactVars, depVars, jobVars, techVars, walkVars, storeVars>>

\* generate_report: the report id is a fresh uuid4.
GenerateReport(format, current_user) ==
    /\ \E report_id \in ReportIds :
        /\ generation[report_id] = NoGeneration
        /\ \A i \in ReportIds : i < report_id => generation[i] # NoGeneration
        /\ reports' = Insert(reports, report_id,
                             [format |-> format, status |-> "processing",
                              owner_id |-> current_user.id])
        /\ generation' = [generation EXCEPT ![report_id] =
                             [format |-> format, state |-> "queued"]]
    /\ UNCHANGED report_files
    /\ UNCHANGED NotReports

\* process_report_generation up to the await of the first request of
\* fetch_analysis_data, which catches what its requests raise.
FetchAnalysisData(report_id) ==
    /\ generation[report_id].state = "queued"
    /\ generation' = [generation EXCEPT ![report_id].state = "fetching"]
    /\ UNCHANGED <<reports, report_files>>
    /\ UNCHANGED NotReports

\* generate_pdf_report up to the await of asyncio.to_thread in
\* generate_pdf: the HTML content is rendered and the thread that writes the
\* file is started.
GeneratePdfReport(report_id) ==
    /\ generation[report_id].state = "fetching"
    /\ generation[report_id].format = "pdf"
    /\ generation' = [generation EXCEPT ![report_id].state = "writing"]
    /\ UNCHANGED <<reports, report_files>>
    /\ UNCHANGED NotReports

\* The report file the generator of a format leaves: generate_json_report
\* reads reports[report_id] first and raises when the report is gone; a
\* format that is not supported raises; the other generators write the file
\* unless rendering raises.
Written(report_id, format, raised) ==
    IF format \in {"sarif", "json"}
    THEN report_id \in DOMAIN reports /\ ~raised
    ELSE format \in {"pdf", "markdown", "html"} /\ ~raised

\* The rest of process_report_generation: the file is written, the report
\* becomes completed; or something raised and the report, when it is still
\* in the map, becomes failed.
ProcessReportGeneration(report_id) ==
    LET format == generation[report_id].format
    IN /\ generation[report_id].state =
            IF format = "pdf" THEN "writing" ELSE "fetching"
       /\ \E raised \in BOOLEAN :
            LET written == Written(report_id, format, raised)
            IN /\ report_files' =
                    IF written
                    THEN report_files \cup {ReportFilePath(report_id, format)}
                    ELSE report_files
               /\ reports' =
                    IF report_id \notin DOMAIN reports THEN reports
                    ELSE [reports EXCEPT ![report_id].status =
                            IF written THEN "completed" ELSE "failed"]
       /\ generation' = [generation EXCEPT ![report_id].state = "done"]
       /\ UNCHANGED NotReports

\* delete_report
DeleteReport(report_id, current_user) ==
    /\ report_id \in DOMAIN reports
    /\ ~NotAuthorized(reports[report_id], current_user)
    /\ report_files' =
            report_files \ {ReportFilePath(report_id, reports[report_id].format)}
    /\ reports' = Delete(reports, report_id)
    /\ UNCHANGED generation
    /\ UNCHANGED NotReports

ReportNext ==
    \/ \E format \in Formats : GenerateReport(format, ReportUser)
    \/ \E report_id \in ReportIds :
        \/ FetchAnalysisData(report_id)
        \/ GeneratePdfReport(report_id)
        \/ ProcessReportGeneration(report_id)
        \/ DeleteReport(report_id, ReportUser)

SpecReport == ReportInit /\ [][ReportNext]_vars

\* The report was deleted and its generation task has ended.
DeletedAndGenerated(report_id) ==
    /\ generation[report_id].state = "done"
    /\ report_id \notin DOMAIN reports

\* C30: however delete_report and the generation task of a report
\* interleave, once both have ended the report id is not in the reports map
\* and no file of the report is in the reports directory.
C30_NoOrphanFile ==
    \A report_id \in ReportIds :
        DeletedAndGenerated(report_id) =>
            \A format \in Formats :
                ReportFilePath(report_id, format) \notin report_files

\* The same for the reports of format json and sarif.
C30_NoOrphanJsonFile ==
    \A report_id \in ReportIds :
        (DeletedAndGenerated(report_id)
            /\ generation[report_id].format \in {"sarif", "json"}) =>
                ReportFilePath(report_id, generation[report_id].format)
                    \notin report_files

=============================================================================
